---- MODULE Spec2Model ----
(***************************************************************************)
(* Model of the H&R (hit and run) assistant plugin,                        *)
(* plugins.v2/hitandrun/__init__.py: the check cycle, the ingestion of     *)
(* download events, the obligation state machine, tag synchronisation,     *)
(* the retention cleanup and the module level lock.                        *)
(*                                                                         *)
(* Times are Unix seconds.  A time field that Python holds as None is 0    *)
(* here (the code tests these fields by truthiness, so None and 0 act the  *)
(* same).  Ratios are integers.  A store (torrents, downloads, the client) *)
(* is a function whose domain is the set of hashes it holds.               *)
(***************************************************************************)
EXTENDS Integers, FiniteSets, Sequences, TLC

\* ---------------------------------------------------------------- bounds
NumHashes == 2
MaxDays == 3
MaxAddDay == 1
NumProcs == 2
MaxAlerts == 1

Hashes == 1..NumHashes
Procs == 1..NumProcs

\* Where the handlers run one at a time every thread is idle between the
\* steps, and a handler does the same whichever thread runs it: one thread
\* stands for the caller.
Thread == CHOOSE p \in Procs : TRUE

Day == 86400
Hour == 3600
HistoryDays == 30

\* None of a time field, and None of a per-site configuration field
NoTime == 0
NoValue == -1
NoSite == "none"

\* an event field that is missing
NoHash == 0
NoDownloader == "none"

\* ---------------------------------------------------------------- HNRStatus
PENDING == "PENDING"
UNRESTRICTED == "UNRESTRICTED"
IN_PROGRESS == "IN_PROGRESS"
COMPLIANT == "COMPLIANT"
OVERDUE == "OVERDUE"
NEEDS_SEEDING == "NEEDS_SEEDING"

\* ---------------------------------------------------------------- maps
EmptyMap == [x \in {} |-> 0]

Put(f, k, v) == [x \in (DOMAIN f) \cup {k} |-> IF x = k THEN v ELSE f[x]]

Drop(f, S) == [x \in (DOMAIN f) \ S |-> f[x]]

\* ---------------------------------------------------------------- inputs
\* The site an ingestion event names for a hash, and the site the tracker
\* lookup of the client's torrent yields (NoSite: the lookup finds none).
EventSite(h) == IF h % 2 = 1 THEN "A" ELSE "B"

LookupSite(h) == IF h % 2 = 1 THEN "A" ELSE NoSite

\* the torrents of a site
SiteHashes(site) == {h \in Hashes : EventSite(h) = site}

\* <<seeding_time, ratio>> pairs the client reports: the required seeding
\* time of both sites is 3 hours and the required ratio is 2, so the pairs
\* are "neither met", "seeding time just met" and "ratio just met"
Stats == {<<3 * Hour, 2>>, <<3 * Hour + 1, 2>>, <<3 * Hour, 3>>}

\* ... of which the ratio stays the required one: the torrent goes from
\* "not met" to "met" and back on its seeding time alone
SeedingStats == {st \in Stats : st[2] = 2}

\* ---------------------------------------------------------------- config
\* HNRConfig: global defaults, enabled sites, per-site overrides.
InitConfig ==
  [ enabled |-> TRUE,
    downloader |-> "qb",
    notify |-> "on_error",
    sites |-> {"A", "B"},
    hit_and_run_tag |-> "H&R",
    hr_duration |-> 2,
    additional_seed_time |-> 1,
    hr_ratio |-> 2,
    hr_deadline_days |-> 2,
    hr_active |-> FALSE,
    auto_cleanup_days |-> 1,
    site_configs |->
      [ A |-> [ hr_duration |-> 1,
                additional_seed_time |-> 2,
                hr_ratio |-> NoValue,
                hr_deadline_days |-> 1,
                hr_active |-> TRUE ] ] ]

\* a second valid configuration: other global duration and deadline, other
\* overrides of site A
AltConfig ==
  [ InitConfig EXCEPT
      !.hr_duration = 1,
      !.hr_deadline_days = 1,
      !.site_configs =
        [ A |-> [ hr_duration |-> NoValue,
                  additional_seed_time |-> 2,
                  hr_ratio |-> NoValue,
                  hr_deadline_days |-> 2,
                  hr_active |-> TRUE ] ] ]

\* an enabled configuration that fails the validation (hr_duration <= 0)
BadConfig == [InitConfig EXCEPT !.hr_duration = 0]

\* sites_helper.get_indexers() as the map the filter builds from it: site id
\* to public flag.  "P" is a public tracker; "U" is a site the form still
\* lists and the registry no longer has.
site_id_to_public_status == [A |-> FALSE, B |-> FALSE, P |-> TRUE]

FormSites == {"A", "B", "P", "U"}

\* the configurations handed to init_plugin: the two valid ones with every
\* site of the form selected, and the invalid one
ConfigInputs ==
  { [InitConfig EXCEPT !.sites = FormSites],
    [AltConfig EXCEPT !.sites = FormSites],
    BadConfig }

\* self._hnr_config is None
NoConfig == [none |-> TRUE]

validate_config(config) ==
  IF ~config.enabled THEN TRUE
  ELSE IF config.downloader = NoDownloader THEN FALSE
  ELSE IF config.hr_duration <= 0 THEN FALSE
  ELSE IF config.hr_deadline_days <= 0 THEN FALSE
  ELSE IF config.hr_ratio <= 0 THEN FALSE
  ELSE TRUE

\* mutant: the site list of the form is taken as it is
validate_and_fix_config_unfiltered(config, current) ==
  IF validate_config(config) THEN config ELSE NoConfig

\* __validate_and_fix_config: the runtime configuration it leaves, given the
\* one in place before; of the selected sites it keeps those the registry
\* lists as not public
validate_and_fix_config(config, current) ==
  IF validate_config(config)
  THEN [config EXCEPT !.sites =
          {site_id \in config.sites :
             /\ site_id \in DOMAIN site_id_to_public_status
             /\ ~site_id_to_public_status[site_id]}]
  ELSE NoConfig

\* __update_config_if_error: the number of alerts it sends
update_config_if_error(config) == IF config.enabled THEN 1 ELSE 0

Pick(own, global) == IF own # NoValue THEN own ELSE global

\* mutant: the record of the site replaces the global defaults as a whole
get_site_config_by_record(cfg, site) ==
  IF site \in DOMAIN cfg.site_configs
  THEN cfg.site_configs[site]
  ELSE [ hr_duration |-> cfg.hr_duration,
         additional_seed_time |-> cfg.additional_seed_time,
         hr_ratio |-> cfg.hr_ratio,
         hr_deadline_days |-> cfg.hr_deadline_days,
         hr_active |-> cfg.hr_active ]

\* HNRConfig.get_site_config: the site's override, field by field over the
\* global defaults
get_site_config(cfg, site) ==
  IF site \in DOMAIN cfg.site_configs
  THEN LET o == cfg.site_configs[site] IN
       [ hr_duration |-> Pick(o.hr_duration, cfg.hr_duration),
         additional_seed_time |-> Pick(o.additional_seed_time, cfg.additional_seed_time),
         hr_ratio |-> Pick(o.hr_ratio, cfg.hr_ratio),
         hr_deadline_days |-> Pick(o.hr_deadline_days, cfg.hr_deadline_days),
         hr_active |-> o.hr_active ]
  ELSE [ hr_duration |-> cfg.hr_duration,
         additional_seed_time |-> cfg.additional_seed_time,
         hr_ratio |-> cfg.hr_ratio,
         hr_deadline_days |-> cfg.hr_deadline_days,
         hr_active |-> cfg.hr_active ]

\* ---------------------------------------------------------------- state
VARIABLES
  now,         \* time.time()
  hnr_config,  \* self._hnr_config
  client,      \* the downloader: hash -> [tagged, ratio, seeding_time, add_on]
  torrents,    \* persisted bucket "torrents": hash -> TorrentTask
  downloads,   \* persisted bucket "downloads": hash -> TorrentHistory
  statistic,   \* persisted bucket "statistic"
  lock,        \* the module level threading.Lock: 0 free, else the holder
  pc,          \* per thread: "idle", "check" or "ingest" (inside "with lock"),
               \* "want_check" or "want_ingest" (blocked in lock.acquire)
  local,       \* per thread: the documents check() parsed on entry
  last,        \* which step came last: "env", "check", "ingest", ...
  alerts,      \* operator alerts sent by init_plugin so far
  sent,        \* <<hash, title>> of the messages the last handler handed to post_message
  tagfail      \* hashes whose tag call raised in the last handler (the error log)

vars == <<now, hnr_config, client, torrents, downloads, statistic, lock, pc, local, last, alerts, sent, tagfail>>

NoLocal == [torrent_tasks |-> EmptyMap, histories |-> EmptyMap]

EmptyStatistic ==
  [total_count |-> 0, pending |-> 0, in_progress |-> 0, compliant |-> 0,
   deleted |-> 0, other |-> 0]

Init ==
  /\ now = Day
  /\ hnr_config = InitConfig
  /\ client = EmptyMap
  /\ torrents = EmptyMap
  /\ downloads = EmptyMap
  /\ statistic = EmptyStatistic
  /\ lock = 0
  /\ pc = [p \in Procs |-> "idle"]
  /\ local = [p \in Procs |-> NoLocal]
  /\ last = "env"
  /\ alerts = 0
  /\ sent = {}
  /\ tagfail = {}


\* ---------------------------------------------------------------- entities
\* TorrentTask as the entity's defaults leave it: not yet classified
NewTask(site, time, hit_and_run) ==
  [ site |-> site,
    time |-> time,
    hit_and_run |-> hit_and_run,
    hr_status |-> PENDING,
    hr_ratio |-> NoValue,
    hr_duration |-> NoValue,
    hr_deadline_days |-> NoValue,
    ratio |-> 0,
    seeding_time |-> 0,
    deleted |-> FALSE,
    deleted_time |-> NoTime,
    hr_met_time |-> NoTime ]

\* TorrentHistory; the fields a task is rebuilt from
NewHistory(site, time) == [site |-> site, time |-> time]

\* mutant: the deadline days are counted as hours
deadline_time_hours(task) == task.time + task.hr_deadline_days * Hour

\* TorrentTask.deadline_time
deadline_time(task) == task.time + task.hr_deadline_days * Day

\* ---------------------------------------------------------------- status
\* mutant: the requirements are copied from the global defaults, whatever the
\* site overrides
init_hr_status_global(task, cfg) ==
  LET site_config == get_site_config(cfg, task.site)
      hit == task.hit_and_run \/ site_config.hr_active
  IN IF hit
     THEN [task EXCEPT !.hit_and_run = TRUE,
                       !.hr_ratio = cfg.hr_ratio,
                       !.hr_duration = cfg.hr_duration,
                       !.hr_deadline_days = cfg.hr_deadline_days,
                       !.hr_status = IN_PROGRESS]
     ELSE [task EXCEPT !.hr_status = UNRESTRICTED]

init_hr_status(task, cfg) ==
  LET site_config == get_site_config(cfg, task.site)
      hit == task.hit_and_run \/ site_config.hr_active
  IN IF hit
     THEN [task EXCEPT !.hit_and_run = TRUE,
                       !.hr_ratio = site_config.hr_ratio,
                       !.hr_duration = site_config.hr_duration,
                       !.hr_deadline_days = site_config.hr_deadline_days,
                       !.hr_status = IN_PROGRESS]
     ELSE [task EXCEPT !.hr_status = UNRESTRICTED]

\* mutant: a seeding time equal to the requirement is enough
meets_hr_requirements_inclusive(task, additional_seed_time, required_ratio) ==
  \/ task.seeding_time >= (task.hr_duration + additional_seed_time) * Hour
  \/ task.ratio > required_ratio

\* mutant: both the seeding time and the ratio are required
meets_hr_requirements_both(task, additional_seed_time, required_ratio) ==
  /\ task.seeding_time > (task.hr_duration + additional_seed_time) * Hour
  /\ task.ratio > required_ratio

meets_hr_requirements(task, additional_seed_time, required_ratio) ==
  LET seeding_time_ok ==
        task.seeding_time > (task.hr_duration + additional_seed_time) * Hour
      ratio_ok == task.ratio > required_ratio
  IN seeding_time_ok \/ ratio_ok

\* mutant: a COMPLIANT task is evaluated again
update_hr_status_reopened(task, cfg, t) ==
  IF ~task.hit_and_run THEN task
  ELSE IF task.hr_status \notin {IN_PROGRESS, COMPLIANT} THEN task
  ELSE LET additional_seed_time == get_site_config(cfg, task.site).additional_seed_time
       IN IF meets_hr_requirements(task, additional_seed_time, task.hr_ratio)
          THEN [task EXCEPT !.hr_status = COMPLIANT, !.hr_met_time = t]
          ELSE IF t > deadline_time(task)
               THEN [task EXCEPT !.hr_status = OVERDUE]
               ELSE IF task.deleted
                    THEN [task EXCEPT !.hr_status = NEEDS_SEEDING]
                    ELSE [task EXCEPT !.hr_status = IN_PROGRESS]

\* mutant: the deadline is looked at before the compliance condition
update_hr_status_deadline_first(task, cfg, t) ==
  IF ~task.hit_and_run THEN task
  ELSE IF task.hr_status # IN_PROGRESS THEN task
  ELSE LET additional_seed_time == get_site_config(cfg, task.site).additional_seed_time
       IN IF t > deadline_time(task)
          THEN [task EXCEPT !.hr_status = OVERDUE]
          ELSE IF meets_hr_requirements(task, additional_seed_time, task.hr_ratio)
               THEN [task EXCEPT !.hr_status = COMPLIANT, !.hr_met_time = t]
               ELSE IF task.deleted
                    THEN [task EXCEPT !.hr_status = NEEDS_SEEDING]
                    ELSE task

\* mutant: every evaluation of a COMPLIANT task stamps hr_met_time anew
update_hr_status_restamped(task, cfg, t) ==
  IF ~task.hit_and_run THEN task
  ELSE IF task.hr_status = COMPLIANT THEN [task EXCEPT !.hr_met_time = t]
  ELSE IF task.hr_status # IN_PROGRESS THEN task
  ELSE LET additional_seed_time == get_site_config(cfg, task.site).additional_seed_time
       IN IF meets_hr_requirements(task, additional_seed_time, task.hr_ratio)
          THEN [task EXCEPT !.hr_status = COMPLIANT, !.hr_met_time = t]
          ELSE IF t > deadline_time(task)
               THEN [task EXCEPT !.hr_status = OVERDUE]
               ELSE IF task.deleted
                    THEN [task EXCEPT !.hr_status = NEEDS_SEEDING]
                    ELSE task

\* mutant: an OVERDUE or NEEDS_SEEDING task is evaluated again
update_hr_status_recovering(task, cfg, t) ==
  IF ~task.hit_and_run THEN task
  ELSE IF task.hr_status \notin {IN_PROGRESS, OVERDUE, NEEDS_SEEDING} THEN task
  ELSE LET additional_seed_time == get_site_config(cfg, task.site).additional_seed_time
       IN IF meets_hr_requirements(task, additional_seed_time, task.hr_ratio)
          THEN [task EXCEPT !.hr_status = COMPLIANT, !.hr_met_time = t]
          ELSE IF t > deadline_time(task)
               THEN [task EXCEPT !.hr_status = OVERDUE]
               ELSE IF task.deleted
                    THEN [task EXCEPT !.hr_status = NEEDS_SEEDING]
                    ELSE task

\* mutant: the deleted flag is not looked at
update_hr_status_ignoring_deleted(task, cfg, t) ==
  IF ~task.hit_and_run THEN task
  ELSE IF task.hr_status # IN_PROGRESS THEN task
  ELSE LET additional_seed_time == get_site_config(cfg, task.site).additional_seed_time
       IN IF meets_hr_requirements(task, additional_seed_time, task.hr_ratio)
          THEN [task EXCEPT !.hr_status = COMPLIANT, !.hr_met_time = t]
          ELSE IF t > deadline_time(task)
               THEN [task EXCEPT !.hr_status = OVERDUE]
               ELSE task

update_hr_status(task, cfg, t) ==
  IF ~task.hit_and_run THEN task
  ELSE IF task.hr_status # IN_PROGRESS THEN task
  ELSE LET site_config == get_site_config(cfg, task.site)
           additional_seed_time == site_config.additional_seed_time
       IN IF meets_hr_requirements(task, additional_seed_time, task.hr_ratio)
          THEN [task EXCEPT !.hr_status = COMPLIANT, !.hr_met_time = t]
          ELSE IF t > deadline_time(task)
               THEN [task EXCEPT !.hr_status = OVERDUE]
               ELSE IF task.deleted
                    THEN [task EXCEPT !.hr_status = NEEDS_SEEDING]
                    ELSE task

\* mutant: the evaluation never calls __remove_hit_and_run_tag
BecomesCompliant_none(tasks, cfg, t) == {}

\* the tasks whose evaluation calls __remove_hit_and_run_tag
BecomesCompliant(tasks, cfg, t) ==
  {h \in DOMAIN tasks :
     /\ tasks[h].hr_status # COMPLIANT
     /\ update_hr_status(tasks[h], cfg, t).hr_status = COMPLIANT}

\* ---------------------------------------------------------------- tag sync
\* __convert_torrent_info_to_task returns None: no history and no site
ConvertsToNone(h, histories) ==
  h \notin DOMAIN histories /\ LookupSite(h) = NoSite

\* mutant: the rebuilt task keeps the hit_and_run flag it was built with
convert_torrent_info_to_task_unforced(h, torrent, histories, cfg) ==
  LET torrent_task ==
        IF h \in DOMAIN histories
        THEN NewTask(histories[h].site, histories[h].time, FALSE)
        ELSE NewTask(LookupSite(h), torrent.add_on, TRUE)
  IN init_hr_status(torrent_task, cfg)

\* __convert_torrent_info_to_task when it returns a task: built from the
\* history record, else from the torrent and the site lookup; hit_and_run
\* is forced before the status is initialised
convert_torrent_info_to_task(h, torrent, histories, cfg) ==
  LET torrent_task ==
        IF h \in DOMAIN histories
        THEN NewTask(histories[h].site, histories[h].time, FALSE)
        ELSE NewTask(LookupSite(h), torrent.add_on, TRUE)
  IN init_hr_status([torrent_task EXCEPT !.hit_and_run = TRUE], cfg)

added_tasks(tasks, snap) ==
  {h \in DOMAIN snap : snap[h].tagged /\ h \notin DOMAIN tasks}

reset_tasks(tasks, snap) ==
  {h \in (DOMAIN snap) \cap (DOMAIN tasks) : snap[h].tagged /\ tasks[h].deleted}

removed_tasks(tasks, snap) ==
  {h \in (DOMAIN snap) \cap (DOMAIN tasks) :
     ~snap[h].tagged /\ tasks[h].hr_status # COMPLIANT}

\* the log line after an adoption reads torrent_task.site_name: a None
\* task raises there and the exception leaves check()
sync_raises(tasks, histories, snap) ==
  \E h \in added_tasks(tasks, snap) : ConvertsToNone(h, histories)

\* mutant: a reappeared task is reported as reset but keeps its deleted flag
update_seeding_tasks_based_on_tags_no_reset(tasks, histories, snap, cfg) ==
  LET added == added_tasks(tasks, snap)
      removed == removed_tasks(tasks, snap)
  IN [h \in ((DOMAIN tasks) \cup added) \ removed |->
        IF h \in added
        THEN convert_torrent_info_to_task(h, snap[h], histories, cfg)
        ELSE tasks[h]]

update_seeding_tasks_based_on_tags(tasks, histories, snap, cfg) ==
  LET added == added_tasks(tasks, snap)
      reset == reset_tasks(tasks, snap)
      removed == removed_tasks(tasks, snap)
  IN [h \in ((DOMAIN tasks) \cup added) \ removed |->
        IF h \in added
        THEN convert_torrent_info_to_task(h, snap[h], histories, cfg)
        ELSE IF h \in reset
             THEN [tasks[h] EXCEPT !.deleted = FALSE]
             ELSE tasks[h]]

is_modified(tasks, snap) ==
  added_tasks(tasks, snap) \cup removed_tasks(tasks, snap)
     \cup reset_tasks(tasks, snap) # {}

\* ---------------------------------------------------------------- missing
\* mutant: the deleted flag is set without the timestamp
update_undeleted_torrents_missing_in_downloader_no_time(tasks, snap, t) ==
  [h \in DOMAIN tasks |->
     IF h \notin DOMAIN snap /\ ~tasks[h].deleted
     THEN [tasks[h] EXCEPT !.deleted = TRUE]
     ELSE tasks[h]]

update_undeleted_torrents_missing_in_downloader(tasks, snap, t) ==
  [h \in DOMAIN tasks |->
     IF h \notin DOMAIN snap /\ ~tasks[h].deleted
     THEN [tasks[h] EXCEPT !.deleted = TRUE, !.deleted_time = t]
     ELSE tasks[h]]

update_torrent_tasks_state(tasks, snap) ==
  [h \in DOMAIN tasks |->
     IF h \in DOMAIN snap
     THEN [tasks[h] EXCEPT !.ratio = snap[h].ratio,
                           !.seeding_time = snap[h].seeding_time]
     ELSE tasks[h]]

\* ---------------------------------------------------------------- cleaner
\* mutant: a task whose age equals the window is removed too
tasks_to_remove_inclusive(tasks, cfg, t) ==
  LET cleanup_threshold_seconds == cfg.auto_cleanup_days * Day IN
  {h \in DOMAIN tasks :
     \/ /\ tasks[h].hr_status = COMPLIANT
        /\ tasks[h].hr_met_time # NoTime
        /\ t - tasks[h].hr_met_time >= cleanup_threshold_seconds
     \/ /\ tasks[h].hr_status = COMPLIANT
        /\ tasks[h].hr_met_time = NoTime
     \/ /\ tasks[h].deleted
        /\ tasks[h].deleted_time # NoTime
        /\ t - tasks[h].deleted_time >= cleanup_threshold_seconds
     \/ /\ tasks[h].deleted
        /\ tasks[h].deleted_time = NoTime}

\* mutant: records without a timestamp are kept
tasks_to_remove_aged_only(tasks, cfg, t) ==
  LET cleanup_threshold_seconds == cfg.auto_cleanup_days * Day IN
  {h \in DOMAIN tasks :
     \/ /\ tasks[h].hr_status = COMPLIANT
        /\ tasks[h].hr_met_time # NoTime
        /\ t - tasks[h].hr_met_time > cleanup_threshold_seconds
     \/ /\ tasks[h].deleted
        /\ tasks[h].deleted_time # NoTime
        /\ t - tasks[h].deleted_time > cleanup_threshold_seconds}

tasks_to_remove(tasks, cfg, t) ==
  LET cleanup_threshold_seconds == cfg.auto_cleanup_days * Day IN
  {h \in DOMAIN tasks :
     \/ /\ tasks[h].hr_status = COMPLIANT
        /\ tasks[h].hr_met_time # NoTime
        /\ t - tasks[h].hr_met_time > cleanup_threshold_seconds
     \/ /\ tasks[h].hr_status = COMPLIANT
        /\ tasks[h].hr_met_time = NoTime
     \/ /\ tasks[h].deleted
        /\ tasks[h].deleted_time # NoTime
        /\ t - tasks[h].deleted_time > cleanup_threshold_seconds
     \/ /\ tasks[h].deleted
        /\ tasks[h].deleted_time = NoTime}

\* mutant: the cleanup runs whatever the window
auto_cleanup_always(tasks, cfg, t) ==
  Drop(tasks, tasks_to_remove(tasks, cfg, t))

auto_cleanup(tasks, cfg, t) ==
  IF cfg.auto_cleanup_days <= 0 THEN tasks
  ELSE Drop(tasks, tasks_to_remove(tasks, cfg, t))

\* ---------------------------------------------------------------- statistics
\* the "archived" bucket is read and never written by the plugin
archived_tasks == EmptyMap

statistic_info(tasks) ==
  LET combined == [h \in (DOMAIN tasks) \cup (DOMAIN archived_tasks) |->
                     IF h \in DOMAIN archived_tasks THEN archived_tasks[h] ELSE tasks[h]]
      hnr == {h \in DOMAIN combined : combined[h].hit_and_run}
      pending == {h \in hnr : combined[h].hr_status = PENDING}
      progress == {h \in hnr : combined[h].hr_status = IN_PROGRESS}
      compliant == {h \in hnr : combined[h].hr_status = COMPLIANT}
  IN [ total_count |-> Cardinality(hnr),
       pending |-> Cardinality(pending),
       in_progress |-> Cardinality(progress),
       compliant |-> Cardinality(compliant),
       deleted |-> Cardinality({h \in DOMAIN combined : combined[h].deleted}),
       other |-> Cardinality(hnr \ (pending \cup progress \cup compliant)) ]

\* ---------------------------------------------------------------- check()
\* the task map after missing detection and the refresh of the figures
refreshed_tasks(synced, snap, t) ==
  update_torrent_tasks_state(
    update_undeleted_torrents_missing_in_downloader(synced, snap, t), snap)

\* mutant: the loop over __update_hr_status runs first, the missing
\* detection and the refresh after it
evaluated_tasks_unrefreshed(synced, snap, cfg, t) ==
  LET evaluated == [h \in DOMAIN synced |-> update_hr_status(synced[h], cfg, t)]
  IN refreshed_tasks(evaluated, snap, t)

\* ... and after the loop over __update_hr_status
evaluated_tasks(synced, snap, cfg, t) ==
  LET refreshed == refreshed_tasks(synced, snap, t)
  IN [h \in DOMAIN refreshed |-> update_hr_status(refreshed[h], cfg, t)]

\* mutant: the lock never blocks
lock_is_free_always(l) == TRUE

\* threading.Lock: acquire succeeds only while nobody holds it
lock_is_free(l) == l = 0

\* mutant: the handler returns without giving the lock back
Release_keeps_lock(p) ==
  /\ lock' = lock
  /\ pc' = [pc EXCEPT ![p] = "idle"]
  /\ local' = [local EXCEPT ![p] = NoLocal]

\* the end of "with lock:", reached by every way out of the body
Release(p) ==
  /\ lock' = 0
  /\ pc' = [pc EXCEPT ![p] = "idle"]
  /\ local' = [local EXCEPT ![p] = NoLocal]

\* mutant: every message is sent unless the notifications are off
send_hr_message_unfiltered(cfg, warn) == cfg.notify # "none"

\* __send_hr_message: whether the message reaches post_message
send_hr_message(cfg, warn) ==
  cfg.notify = "always" \/ (warn /\ cfg.notify = "on_error")

\* the message of __process_torrent_task for a new obligation (warn is left
\* at its default, False)
download_messages(h, cfg) ==
  IF send_hr_message(cfg, FALSE) THEN {<<h, "download">>} ELSE {}

\* the messages of the missing detection: one for each task it marks, a
\* warning unless the task is COMPLIANT or UNRESTRICTED
deleted_messages(synced, snap, cfg) ==
  {<<h, "deleted">> : h \in
     {g \in DOMAIN synced :
        /\ g \notin DOMAIN snap
        /\ ~synced[g].deleted
        /\ send_hr_message(cfg, synced[g].hr_status \notin {COMPLIANT, UNRESTRICTED})}}

\* the messages of __update_hr_status: one for each task whose status it
\* changes, a warning for OVERDUE and NEEDS_SEEDING
status_messages(refreshed, cfg, t) ==
  LET new(h) == update_hr_status(refreshed[h], cfg, t).hr_status
      changed == {h \in DOMAIN refreshed : new(h) # refreshed[h].hr_status}
  IN {<<h, "compliant">> : h \in
        {g \in changed : new(g) = COMPLIANT /\ send_hr_message(cfg, FALSE)}}
     \cup {<<h, "overdue">> : h \in
        {g \in changed : new(g) = OVERDUE /\ send_hr_message(cfg, TRUE)}}
     \cup {<<h, "needs_seeding">> : h \in
        {g \in changed : new(g) = NEEDS_SEEDING /\ send_hr_message(cfg, TRUE)}}

\* the tasks whose evaluation calls post_message
notified_tasks(refreshed, cfg, t) ==
  {m[1] : m \in status_messages(refreshed, cfg, t)}

\* mutant: no try/except around the evaluation of a task
caught_tasks_none(raising) == {}

\* the "except Exception" of the loop in check() catches whatever the
\* evaluation of a task raises
caught_tasks(raising) == raising

\* check() from the snapshot on, for the documents read on entry: tag sync,
\* missing detection, refresh, evaluation, cleanup, statistics, save.
\* raising: the tasks for which post_message raises inside __update_hr_status
\* (after the status was set).
CheckBody(tasks, histories) ==
  /\ LET snap == client
     IN IF sync_raises(tasks, histories, snap)
        THEN /\ last' = "check"
             /\ sent' = {}
             /\ tagfail' = {}
             /\ UNCHANGED <<client, torrents, statistic>>
        ELSE LET synced == update_seeding_tasks_based_on_tags(tasks, histories, snap, hnr_config)
                 saved == IF is_modified(tasks, snap) THEN synced ELSE torrents
             IN IF DOMAIN synced = {}
                THEN /\ last' = "check"
                     /\ torrents' = saved
                     /\ sent' = {}
                     /\ tagfail' = {}
                     /\ UNCHANGED <<client, statistic>>
                ELSE LET refreshed == refreshed_tasks(synced, snap, now)
                         evaluated == evaluated_tasks(synced, snap, hnr_config, now)
                         cleaned == auto_cleanup(evaluated, hnr_config, now)
                         untag == BecomesCompliant(refreshed, hnr_config, now)
                                    \cap {h \in DOMAIN client : client[h].tagged}
                     IN /\ \E failed \in SUBSET untag :
                             /\ client' = [h \in DOMAIN client |->
                                             IF h \in untag \ failed
                                             THEN [client[h] EXCEPT !.tagged = FALSE]
                                             ELSE client[h]]
                             /\ tagfail' = failed
                        /\ sent' = deleted_messages(synced, snap, hnr_config)
                                      \cup status_messages(refreshed, hnr_config, now)
                        /\ \E raising \in SUBSET notified_tasks(refreshed, hnr_config, now) :
                             /\ last' = IF raising = {} THEN "check" ELSE "check_raised"
                             /\ IF raising \ caught_tasks(raising) # {}
                                THEN /\ torrents' = saved
                                     /\ statistic' = statistic
                                ELSE /\ statistic' = statistic_info(cleaned)
                                     /\ torrents' = cleaned
  /\ UNCHANGED <<now, hnr_config, downloads, alerts>>

\* ---------------------------------------------------------------- ingestion
\* mutant: the record is added and nothing is purged
save_and_cleanup_downloads_keep_all(hist, h, history, t) ==
  Put(hist, h, history)

\* __save_and_cleanup_downloads: the record of the event is put in, then
\* only the records younger than 30 days are kept
save_and_cleanup_downloads(hist, h, history, t) ==
  LET cutoff_time == t - HistoryDays * 24 * 60 * 60
      all == Put(hist, h, history)
  IN [k \in {x \in DOMAIN all : all[x].time > cutoff_time} |-> all[k]]

\* the events delivered: the well-formed ones of the monitored client, and
\* one event for each way of being rejected
GoodEvents ==
  {[hash |-> h, site |-> EventSite(h), hnr |-> b, downloader |-> "qb", data |-> TRUE] :
     h \in Hashes, b \in BOOLEAN}

\* well-formed events of the monitored client for a torrent of the public
\* site and for one of the site the registry does not list
UnmanagedEvents ==
  { [hash |-> 2, site |-> "P", hnr |-> TRUE, downloader |-> "qb", data |-> TRUE],
    [hash |-> 1, site |-> "U", hnr |-> TRUE, downloader |-> "qb", data |-> TRUE] }

BadEvents ==
  { [hash |-> 1, site |-> "A", hnr |-> TRUE, downloader |-> "other", data |-> TRUE],
    [hash |-> 1, site |-> "A", hnr |-> TRUE, downloader |-> NoDownloader, data |-> TRUE],
    [hash |-> NoHash, site |-> "A", hnr |-> TRUE, downloader |-> "qb", data |-> TRUE],
    [hash |-> 1, site |-> "A", hnr |-> TRUE, downloader |-> "qb", data |-> FALSE] }

Events == GoodEvents \cup BadEvents

\* mutant: the originating client of the event is not compared
event_accepted_any_downloader(e, cfg) ==
  /\ e.downloader # NoDownloader
  /\ e.hash # NoHash
  /\ e.data

\* the checks of the two event handlers before __process_event is called
event_accepted(e, cfg) ==
  /\ e.downloader # NoDownloader
  /\ cfg.downloader = e.downloader
  /\ e.hash # NoHash
  /\ e.data

\* mutant: the task is stored only when the tag could be added
process_torrent_task_transactional(existing, h, torrent_task, tag_ok) ==
  IF tag_ok THEN Put(existing, h, torrent_task) ELSE existing

\* mutant: the whole document is replaced by the new task
process_torrent_task_replacing(existing, h, torrent_task, tag_ok) ==
  Put(EmptyMap, h, torrent_task)

\* the TaskStore after __update_torrent_tasks and __set_hit_and_run_tag,
\* whatever the outcome of the tag call
\* mutant: an entry that is already there is kept
process_torrent_task_keeping(existing, h, torrent_task, tag_ok) ==
  IF h \in DOMAIN existing THEN existing ELSE Put(existing, h, torrent_task)

process_torrent_task(existing, h, torrent_task, tag_ok) ==
  Put(existing, h, torrent_task)

\* mutant: every site is taken as managed
site_enabled_any(site, cfg) == TRUE

\* __process_torrent_task goes on only for a site of the enabled-site list
site_enabled(site, cfg) == site \in cfg.sites

\* the body of __process_event for an event (hash h of a site, hit_and_run
\* flag hnr); the tag call is made, and so may fail, only if the tag is not
\* on the torrent yet
process_event(h, site, hnr) ==
  /\ last' = "ingest"
  /\ IF h \notin DOMAIN client
     THEN /\ sent' = {}
          /\ tagfail' = {}
          /\ UNCHANGED <<client, torrents, downloads>>
     ELSE /\ downloads' = save_and_cleanup_downloads(
                             downloads, h, NewHistory(site, now), now)
          /\ LET created == NewTask(site, now, hnr)
                 torrent_task == init_hr_status(created, hnr_config)
             IN IF ~site_enabled(created.site, hnr_config) \/ ~torrent_task.hit_and_run
                THEN /\ sent' = {}
                     /\ tagfail' = {}
                     /\ UNCHANGED <<client, torrents>>
                ELSE \E ok \in (IF client[h].tagged THEN {TRUE} ELSE BOOLEAN) :
                       /\ torrents' = process_torrent_task(torrents, h, torrent_task, ok)
                       /\ client' = IF ok THEN [client EXCEPT ![h].tagged = TRUE]
                                          ELSE client
                       /\ tagfail' = IF ok THEN {} ELSE {h}
                       /\ sent' = download_messages(h, hnr_config)
  /\ UNCHANGED <<now, hnr_config, statistic, alerts>>

\* ... for an event whose descriptor names the site of the hash
IngestBody(h, hnr) == process_event(h, EventSite(h), hnr)

\* ---------------------------------------------------------------- handlers
\* check() as one step: the lock is taken, held for the whole body, released
Check(p) ==
  /\ pc[p] = "idle"
  /\ hnr_config # NoConfig
  /\ lock_is_free(lock)
  /\ CheckBody(torrents, downloads)
  /\ UNCHANGED <<lock, pc, local>>

\* an event handler and __process_event as one step; a rejected event
\* returns before the lock is asked for
Ingest(p, e) ==
  /\ pc[p] = "idle"
  /\ hnr_config # NoConfig
  /\ now <= MaxAddDay * Day
  /\ IF event_accepted(e, hnr_config)
     THEN /\ lock_is_free(lock)
          /\ process_event(e.hash, e.site, e.hnr)
     ELSE /\ last' = "reject"
          /\ sent' = {}
          /\ tagfail' = {}
          /\ UNCHANGED <<now, hnr_config, client, torrents, downloads, statistic, alerts>>
  /\ UNCHANGED <<lock, pc, local>>

\* init_plugin with a configuration from the form
InitPlugin(config) ==
  /\ \A p \in Procs : pc[p] = "idle"
  /\ validate_config(config) \/ alerts < MaxAlerts
  /\ hnr_config' = validate_and_fix_config(config, hnr_config)
  /\ alerts' = IF validate_config(config) THEN alerts
                ELSE alerts + update_config_if_error(config)
  /\ last' = "init"
  /\ sent' = {}
  /\ tagfail' = {}
  /\ UNCHANGED <<now, client, torrents, downloads, statistic, lock, pc, local>>

\* __auto_cleanup on the task map it is handed; local keeps that map
Clean(p) ==
  /\ last = "env"
  /\ local' = [local EXCEPT ![p].torrent_tasks = torrents]
  /\ torrents' = auto_cleanup(torrents, hnr_config, now)
  /\ last' = "clean"
  /\ sent' = {}
  /\ tagfail' = {}
  /\ UNCHANGED <<now, hnr_config, client, downloads, statistic, lock, pc, alerts>>

\* ---------------------------------------------------------------- threads
\* "with lock:" entered by check(); the two documents are read and parsed
CheckBegin(p) ==
  /\ pc[p] = "idle"
  /\ lock_is_free(lock)
  /\ lock' = p
  /\ pc' = [pc EXCEPT ![p] = "check"]
  /\ local' = [local EXCEPT ![p] = [torrent_tasks |-> torrents, histories |-> downloads]]
  /\ UNCHANGED <<now, hnr_config, client, torrents, downloads, statistic, last, alerts, sent, tagfail>>

CheckEnd(p) ==
  /\ pc[p] = "check"
  /\ Release(p)
  /\ CheckBody(local[p].torrent_tasks, local[p].histories)

\* "with lock:" entered by __process_event
IngestBegin(p) ==
  /\ pc[p] = "idle"
  /\ now <= MaxAddDay * Day
  /\ lock_is_free(lock)
  /\ lock' = p
  /\ pc' = [pc EXCEPT ![p] = "ingest"]
  /\ UNCHANGED <<now, hnr_config, client, torrents, downloads, statistic, local, last, alerts, sent, tagfail>>

IngestEnd(p, h, hnr) ==
  /\ pc[p] = "ingest"
  /\ Release(p)
  /\ IngestBody(h, hnr)

\* ---------------------------------------------------------------- environment
Env ==
  /\ last' = "env"
  /\ sent' = {}
  /\ tagfail' = {}
  /\ UNCHANGED <<hnr_config, torrents, downloads, statistic, lock, pc, local, alerts>>

Tick ==
  /\ now < MaxDays * Day
  /\ now' = now + Day
  /\ client' = client
  /\ Env

\* a torrent enters the client
ClientAdd(h) ==
  /\ h \notin DOMAIN client
  /\ now <= MaxAddDay * Day
  /\ client' = Put(client, h, [tagged |-> FALSE, ratio |-> 2,
                               seeding_time |-> 3 * Hour, add_on |-> now])
  /\ now' = now
  /\ Env

\* a torrent is deleted from the client
ClientRemove(h) ==
  /\ h \in DOMAIN client
  /\ client' = Drop(client, {h})
  /\ now' = now
  /\ Env

\* somebody sets or clears the management tag in the client
ClientSetTag(h, b) ==
  /\ h \in DOMAIN client
  /\ client[h].tagged # b
  /\ client' = [client EXCEPT ![h].tagged = b]
  /\ now' = now
  /\ Env

\* seeding goes on: the client reports new figures
ClientProgress(h, st) ==
  /\ h \in DOMAIN client
  /\ <<client[h].seeding_time, client[h].ratio>> # st
  /\ client' = [client EXCEPT ![h].seeding_time = st[1], ![h].ratio = st[2]]
  /\ now' = now
  /\ Env

Environment ==
  \/ \E h \in Hashes : ClientAdd(h)
  \/ \E h \in Hashes : ClientRemove(h)
  \/ \E h \in Hashes, b \in BOOLEAN : ClientSetTag(h, b)
  \/ \E h \in Hashes, st \in SeedingStats : ClientProgress(h, st)

\* the handlers one at a time
Next ==
  \/ Check(Thread)
  \/ \E e \in GoodEvents : Ingest(Thread, e)
  \/ Tick
  \/ Environment

Spec == Init /\ [][Next]_vars

\* the handlers one at a time while the torrents are seeded: the client
\* reports every pair of figures, and no torrent leaves it
NextSeeding ==
  \/ Check(Thread)
  \/ \E e \in GoodEvents : Ingest(Thread, e)
  \/ Tick
  \/ \E h \in Hashes : ClientAdd(h)
  \/ \E h \in Hashes, st \in Stats : ClientProgress(h, st)

SpecSeeding == Init /\ [][NextSeeding]_vars

\* the handlers as threads that contend for the lock, while torrents enter
\* the client, are tagged and untagged, and are seeded
NextLock ==
  \/ \E p \in Procs : CheckBegin(p)
  \/ \E p \in Procs : CheckEnd(p)
  \/ \E p \in Procs : IngestBegin(p)
  \/ \E p \in Procs, h \in Hashes, hnr \in BOOLEAN : IngestEnd(p, h, hnr)
  \/ \E h \in Hashes : ClientAdd(h)
  \/ \E h \in Hashes, b \in BOOLEAN : ClientSetTag(h, b)
  \/ \E h \in Hashes, st \in SeedingStats : ClientProgress(h, st)

SpecLock == Init /\ [][NextLock]_vars

\* a thread reaches "with lock:" of check() and asks for the lock
CheckRequest(p) ==
  /\ pc[p] = "idle"
  /\ pc' = [pc EXCEPT ![p] = "want_check"]
  /\ UNCHANGED <<now, hnr_config, client, torrents, downloads, statistic, lock, local, last, alerts, sent, tagfail>>

\* lock.acquire() returns: the thread holds the lock and reads the documents
CheckAcquire(p) ==
  /\ pc[p] = "want_check"
  /\ lock_is_free(lock)
  /\ lock' = p
  /\ pc' = [pc EXCEPT ![p] = "check"]
  /\ local' = [local EXCEPT ![p] = [torrent_tasks |-> torrents, histories |-> downloads]]
  /\ UNCHANGED <<now, hnr_config, client, torrents, downloads, statistic, last, alerts, sent, tagfail>>

\* the same for "with lock:" of __process_event
IngestRequest(p) ==
  /\ pc[p] = "idle"
  /\ pc' = [pc EXCEPT ![p] = "want_ingest"]
  /\ UNCHANGED <<now, hnr_config, client, torrents, downloads, statistic, lock, local, last, alerts, sent, tagfail>>

IngestAcquire(p) ==
  /\ pc[p] = "want_ingest"
  /\ lock_is_free(lock)
  /\ lock' = p
  /\ pc' = [pc EXCEPT ![p] = "ingest"]
  /\ UNCHANGED <<now, hnr_config, client, torrents, downloads, statistic, local, last, alerts, sent, tagfail>>

\* the threads with the wait for the lock as a state of its own
NextLive ==
  \/ \E p \in Procs : CheckRequest(p)
  \/ \E p \in Procs : CheckAcquire(p)
  \/ \E p \in Procs : CheckEnd(p)
  \/ \E p \in Procs : IngestRequest(p)
  \/ \E p \in Procs : IngestAcquire(p)
  \/ \E p \in Procs, h \in Hashes, hnr \in BOOLEAN : IngestEnd(p, h, hnr)
  \/ \E h \in Hashes : ClientAdd(h)
  \/ \E h \in Hashes, b \in BOOLEAN : ClientSetTag(h, b)

\* the step that ends the body of thread p, as the program counters show
\* it: a step of CheckEnd(p) or of IngestEnd(p, h, hnr), which are enabled
\* whenever the thread is inside the body
BodyEnds(p) ==
  /\ pc[p] \in {"check", "ingest"}
  /\ pc' = [pc EXCEPT ![p] = "idle"]

\* The body of a handler makes no blocking call, so a thread inside it goes
\* on to its end (weak fairness); a thread blocked in lock.acquire() is woken
\* when the lock is released and gets it at one of the releases (strong
\* fairness: the acquire is enabled only while the lock is free).
Fairness ==
  \A p \in Procs :
     /\ WF_pc(BodyEnds(p))
     /\ SF_vars(CheckAcquire(p))
     /\ SF_vars(IngestAcquire(p))

SpecLive == Init /\ [][NextLive]_vars /\ Fairness

\* the handlers one at a time, with init_plugin called in between; the
\* torrents that are deleted from the client are those of the site with
\* the override
NextConfig ==
  \/ \E config \in ConfigInputs : InitPlugin(config)
  \/ Check(Thread)
  \/ \E e \in GoodEvents : Ingest(Thread, e)
  \/ Tick
  \/ \E h \in Hashes : ClientAdd(h)
  \/ \E h \in SiteHashes("A") : ClientRemove(h)
  \/ \E h \in Hashes, b \in BOOLEAN : ClientSetTag(h, b)

SpecConfig == Init /\ [][NextConfig]_vars

\* the event handlers on every kind of event, with init_plugin and check()
\* in between
NextIngest ==
  \/ \E config \in ConfigInputs : InitPlugin(config)
  \/ \E e \in Events \cup UnmanagedEvents : Ingest(Thread, e)
  \/ Check(Thread)
  \/ \E h \in Hashes : ClientAdd(h)
  \/ \E h \in Hashes, b \in BOOLEAN : ClientSetTag(h, b)

SpecIngest == Init /\ [][NextIngest]_vars

\* the retention cleanup as a function of the task map, the window and the
\* time: the stores it may be handed include records written by earlier
\* versions, which lack hr_met_time or deleted_time
Windows == {-1, 0, 1, 2}

StoredTasks ==
  {[init_hr_status(NewTask("A", Day, TRUE), InitConfig) EXCEPT
      !.hr_status = st, !.deleted = d, !.hr_met_time = m, !.deleted_time = dt] :
     st \in {IN_PROGRESS, COMPLIANT}, d \in BOOLEAN,
     m \in {NoTime, Day, 2 * Day}, dt \in {NoTime, Day}}

InitCleaner ==
  /\ now \in {k * Day : k \in 1..MaxDays}
  /\ hnr_config \in {[InitConfig EXCEPT !.auto_cleanup_days = w] : w \in Windows}
  /\ client = EmptyMap
  /\ torrents \in UNION {[S -> StoredTasks] : S \in SUBSET Hashes}
  /\ \A h \in DOMAIN torrents :
        torrents[h].hr_met_time <= now /\ torrents[h].deleted_time <= now
  /\ downloads = EmptyMap
  /\ statistic = EmptyStatistic
  /\ lock = 0
  /\ pc = [p \in Procs |-> "idle"]
  /\ local = [p \in Procs |-> NoLocal]
  /\ last = "env"
  /\ alerts = 0
  /\ sent = {}
  /\ tagfail = {}

NextCleaner == Clean(Thread)

SpecCleaner == InitCleaner /\ [][NextCleaner]_vars

\* The resolution of the site overrides, with the figures of the demo
\* configuration: the global defaults, and for site A every combination of
\* set and unset override fields (the site forces the obligation).
ScenarioGlobal ==
  [ InitConfig EXCEPT
      !.hr_duration = 120,
      !.additional_seed_time = 24,
      !.hr_ratio = 1,
      !.hr_deadline_days = 14,
      !.hr_active = FALSE,
      !.site_configs = EmptyMap ]

SiteConfigs ==
  {[ hr_duration |-> d, additional_seed_time |-> a, hr_ratio |-> r,
     hr_deadline_days |-> dd, hr_active |-> TRUE ] :
     d \in {NoValue, 36}, a \in {NoValue, 12}, r \in {NoValue, 2},
     dd \in {NoValue, 7}}

SiteOverrideConfigs ==
  {[ScenarioGlobal EXCEPT !.site_configs = [A |-> o]] : o \in SiteConfigs}

\* the override of the demo configuration's third site: duration and ratio
ScenarioConfig ==
  [ ScenarioGlobal EXCEPT
      !.site_configs =
        [ A |-> [ hr_duration |-> 36,
                  additional_seed_time |-> NoValue,
                  hr_ratio |-> 1,
                  hr_deadline_days |-> NoValue,
                  hr_active |-> TRUE ] ] ]

\* <<seeding_time, ratio>> around the requirement of 36 + 24 hours and 1.0,
\* reported for the torrents of site A
ScenarioStats == {<<60 * Hour, 1>>, <<61 * Hour, 1>>, <<60 * Hour, 2>>}

InitSites ==
  /\ now = Day
  /\ hnr_config \in SiteOverrideConfigs \cup {ScenarioConfig}
  /\ client = EmptyMap
  /\ torrents = EmptyMap
  /\ downloads = EmptyMap
  /\ statistic = EmptyStatistic
  /\ lock = 0
  /\ pc = [p \in Procs |-> "idle"]
  /\ local = [p \in Procs |-> NoLocal]
  /\ last = "env"
  /\ alerts = 0
  /\ sent = {}
  /\ tagfail = {}

\* a torrent enters the client with nothing seeded yet
ClientAddFresh(h) ==
  /\ h \notin DOMAIN client
  /\ now <= MaxAddDay * Day
  /\ client' = Put(client, h, [tagged |-> FALSE, ratio |-> 0,
                               seeding_time |-> 0, add_on |-> now])
  /\ now' = now
  /\ Env

NextSites ==
  \/ \E h \in Hashes : ClientAddFresh(h)
  \/ \E e \in GoodEvents : Ingest(Thread, e)
  \/ \E h \in SiteHashes("A"), st \in ScenarioStats : ClientProgress(h, st)
  \/ Tick
  \/ Check(Thread)

SpecSites == InitSites /\ [][NextSites]_vars

\* The handlers under each notification mode: NotifyMode.ALWAYS, ON_ERROR
\* and the mode that is neither.
NotifyModes == {"none", "on_error", "always"}

InitNotify ==
  /\ now = Day
  /\ hnr_config \in {[InitConfig EXCEPT !.notify = mode] : mode \in NotifyModes}
  /\ client = EmptyMap
  /\ torrents = EmptyMap
  /\ downloads = EmptyMap
  /\ statistic = EmptyStatistic
  /\ lock = 0
  /\ pc = [p \in Procs |-> "idle"]
  /\ local = [p \in Procs |-> NoLocal]
  /\ last = "env"
  /\ alerts = 0
  /\ sent = {}
  /\ tagfail = {}

NextNotify ==
  \/ Check(Thread)
  \/ \E e \in GoodEvents : Ingest(Thread, e)
  \/ Tick
  \/ \E h \in Hashes : ClientAdd(h)
  \/ \E h \in Hashes : ClientRemove(h)
  \/ \E h \in Hashes, st \in SeedingStats : ClientProgress(h, st)

SpecNotify == InitNotify /\ [][NextNotify]_vars

\* The history store over more than its retention window: the times at
\* which the handlers run are one day, then the day before, the day of and
\* the day after the 30 days since then.
HistoryTimes ==
  {Day, HistoryDays * Day, (HistoryDays + 1) * Day, (HistoryDays + 2) * Day}

Elapse(t) ==
  /\ t > now
  /\ now' = t
  /\ client' = client
  /\ Env

\* an event handler and __process_event as one step, at any time
LateIngest(p, e) ==
  /\ pc[p] = "idle"
  /\ hnr_config # NoConfig
  /\ event_accepted(e, hnr_config)
  /\ lock_is_free(lock)
  /\ process_event(e.hash, e.site, e.hnr)
  /\ UNCHANGED <<lock, pc, local>>

NextHistory ==
  \/ \E t \in HistoryTimes : Elapse(t)
  \/ \E e \in GoodEvents : LateIngest(Thread, e)
  \/ Check(Thread)
  \/ \E h \in Hashes : ClientAdd(h)
  \/ \E h \in Hashes : ClientRemove(h)
  \/ \E h \in Hashes, b \in BOOLEAN : ClientSetTag(h, b)

SpecHistory == Init /\ [][NextHistory]_vars

\* check() when a step after the evaluation loop raises: __auto_cleanup,
\* __update_and_save_statistic_info and __save_torrent_task are called
\* outside any try, so the exception leaves check() (the lock is given back
\* by "with").  The calls made on the client by the evaluation are done by
\* then; the TaskStore is as the tag sync saved it, if it did, and the
\* statistics are the new ones only if the failure came after their save.
CheckBodyInterrupted(tasks, histories) ==
  /\ LET snap == client
         synced == update_seeding_tasks_based_on_tags(tasks, histories, snap, hnr_config)
         saved == IF is_modified(tasks, snap) THEN synced ELSE torrents
         refreshed == refreshed_tasks(synced, snap, now)
         evaluated == evaluated_tasks(synced, snap, hnr_config, now)
         cleaned == auto_cleanup(evaluated, hnr_config, now)
         untag == BecomesCompliant(refreshed, hnr_config, now)
                    \cap {h \in DOMAIN client : client[h].tagged}
     IN /\ ~sync_raises(tasks, histories, snap)
        /\ DOMAIN synced # {}
        /\ \E failed \in SUBSET untag :
             /\ client' = [h \in DOMAIN client |->
                             IF h \in untag \ failed
                             THEN [client[h] EXCEPT !.tagged = FALSE]
                             ELSE client[h]]
             /\ tagfail' = failed
        /\ sent' = deleted_messages(synced, snap, hnr_config)
                      \cup status_messages(refreshed, hnr_config, now)
        /\ last' = "check_failed"
        /\ torrents' = saved
        /\ statistic' \in {statistic, statistic_info(cleaned)}
  /\ UNCHANGED <<now, hnr_config, downloads, alerts>>

CheckFailing(p) ==
  /\ pc[p] = "idle"
  /\ hnr_config # NoConfig
  /\ lock_is_free(lock)
  /\ CheckBodyInterrupted(torrents, downloads)
  /\ UNCHANGED <<lock, pc, local>>

\* the handlers one at a time, a check cycle running to its end or not
NextFaults ==
  \/ Check(Thread)
  \/ CheckFailing(Thread)
  \/ \E e \in GoodEvents : Ingest(Thread, e)
  \/ \E h \in Hashes : ClientAdd(h)
  \/ \E h \in Hashes, st \in Stats : ClientProgress(h, st)

SpecFaults == Init /\ [][NextFaults]_vars

\* Ingestion into a TaskStore that already holds entries: the entry a hash
\* may have when its event arrives, one for each status a cycle leaves, as
\* created on day one and seen on day three.
StoredEntries(h) ==
  LET base == init_hr_status(NewTask(EventSite(h), Day, TRUE), InitConfig) IN
  { base,
    [base EXCEPT !.hr_status = COMPLIANT, !.hr_met_time = 3 * Day],
    [base EXCEPT !.hr_status = OVERDUE],
    [base EXCEPT !.hr_status = NEEDS_SEEDING, !.deleted = TRUE, !.deleted_time = 2 * Day] }

InitReplace ==
  /\ now = 3 * Day
  /\ hnr_config = InitConfig
  /\ client \in [Hashes -> {[tagged |-> b, ratio |-> 2, seeding_time |-> 3 * Hour,
                               add_on |-> Day] : b \in BOOLEAN}]
  /\ torrents \in UNION {[S -> UNION {StoredEntries(h) : h \in Hashes}] : S \in SUBSET Hashes}
  /\ \A h \in DOMAIN torrents : torrents[h] \in StoredEntries(h)
  /\ downloads = [h \in DOMAIN torrents |-> NewHistory(EventSite(h), Day)]
  /\ statistic = statistic_info(torrents)
  /\ lock = 0
  /\ pc = [p \in Procs |-> "idle"]
  /\ local = [p \in Procs |-> NoLocal]
  /\ last = "env"
  /\ alerts = 0
  /\ sent = {}
  /\ tagfail = {}

NextReplace ==
  \/ \E e \in GoodEvents : LateIngest(Thread, e)
  \/ \E h \in Hashes : ClientRemove(h)

SpecReplace == InitReplace /\ [][NextReplace]_vars

\* The retention over time: a TaskStore and a client as a cycle may find
\* them on day three, and from then on only time passing and check cycles,
\* the scheduler running check() again and again.
RetentionTimes == {3 * Day, 4 * Day, 5 * Day, 6 * Day}

LastTime == 6 * Day

ClientTorrents ==
  {[tagged |-> b, ratio |-> r, seeding_time |-> 3 * Hour, add_on |-> Day] :
     b \in BOOLEAN, r \in {2, 3}}

InitRetention ==
  /\ now = 3 * Day
  /\ hnr_config \in {[InitConfig EXCEPT !.auto_cleanup_days = w] : w \in {0, 1}}
  /\ client \in UNION {[S -> ClientTorrents] : S \in SUBSET Hashes}
  /\ torrents \in UNION {[S -> UNION {StoredEntries(h) : h \in Hashes}] : S \in SUBSET Hashes}
  /\ \A h \in DOMAIN torrents : torrents[h] \in StoredEntries(h)
  /\ downloads = [h \in DOMAIN torrents |-> NewHistory(EventSite(h), Day)]
  /\ statistic = statistic_info(torrents)
  /\ lock = 0
  /\ pc = [p \in Procs |-> "idle"]
  /\ local = [p \in Procs |-> NoLocal]
  /\ last = "env"
  /\ alerts = 0
  /\ sent = {}
  /\ tagfail = {}

TimePasses == \E t \in RetentionTimes : Elapse(t)

NextRetention ==
  \/ TimePasses
  \/ Check(Thread)

\* a check cycle is run after the clock has moved
CycleStarts ==
  /\ last = "env"
  /\ last' \in {"check", "check_raised"}

\* Time goes on, and the scheduler calls check() at its interval: after the
\* clock has moved a cycle is run (check() is enabled whenever the plugin is
\* configured and no handler holds the lock, which is so between the steps).
FairRetention ==
  /\ WF_now(TimePasses)
  /\ WF_last(CycleStarts)

SpecRetention == InitRetention /\ [][NextRetention]_vars /\ FairRetention

\* ================================================================ claims
\* A step of check() (the only step that sets last to "check").
CheckStep == last' \in {"check", "check_raised"}

\* The tag sync of this check() raises: some tagged torrent of the snapshot
\* has no task, no history record and no site.
SyncAborts ==
  \E h \in DOMAIN client :
     /\ client[h].tagged
     /\ h \notin DOMAIN torrents
     /\ h \notin DOMAIN downloads
     /\ LookupSite(h) = NoSite

\* Task h is IN_PROGRESS when this check() evaluates it: it was stored as
\* IN_PROGRESS and the tag sync kept it, or the tag sync adopted it.
EvaluatedInProgress(h) ==
  /\ ~SyncAborts
  /\ \/ /\ h \in DOMAIN torrents
        /\ torrents[h].hr_status = IN_PROGRESS
        /\ h \in DOMAIN client => client[h].tagged
     \/ /\ h \notin DOMAIN torrents
        /\ h \in DOMAIN client
        /\ client[h].tagged

\* the figures the evaluation of h sees: the client's, else the stored ones
SeenSeedingTime(h) ==
  IF h \in DOMAIN client THEN client[h].seeding_time ELSE torrents[h].seeding_time

SeenRatio(h) ==
  IF h \in DOMAIN client THEN client[h].ratio ELSE torrents[h].ratio

AdditionalSeedTime(site) == get_site_config(hnr_config, site).additional_seed_time

\* the compliance condition of the specification, on the figures seen
MeetsCondition(h, t) ==
  \/ SeenSeedingTime(h) > (t.hr_duration + AdditionalSeedTime(t.site)) * 3600
  \/ SeenRatio(h) > t.hr_ratio

\* C1: a task that a check cycle evaluates as IN_PROGRESS ends the cycle
\* COMPLIANT if and only if its seeding time exceeds (required duration +
\* additional seed time) * 3600 or its ratio exceeds the required ratio (both
\* strict, either suffices), and then hr_met_time is the current time.
C1_ComplianceIff ==
  [][CheckStep =>
       \A h \in Hashes :
          EvaluatedInProgress(h) =>
            /\ h \in DOMAIN torrents'
            /\ LET t == torrents'[h] IN
               /\ (t.hr_status = COMPLIANT) <=> MeetsCondition(h, t)
               /\ t.hr_status = COMPLIANT => t.hr_met_time = now]_vars

\* a cycle just made a task COMPLIANT on its seeding time alone, the ratio
\* being exactly the required one
C1_Witness ==
  /\ last = "check"
  /\ \E h \in DOMAIN torrents :
        LET t == torrents[h] IN
        /\ t.hr_status = COMPLIANT
        /\ t.hr_met_time = now
        /\ t.seeding_time = (t.hr_duration + AdditionalSeedTime(t.site)) * 3600 + 1
        /\ t.ratio = t.hr_ratio

\* The Cleaner's rules hold of a task that was COMPLIANT before this cycle:
\* its hr_met_time is unset or older than the window, or it is deleted (not
\* revived by a tagged torrent) with deleted_time unset or older than the window.
CleanerMayRemoveCompliant(h) ==
  LET t == torrents[h]
      window == hnr_config.auto_cleanup_days * 86400
  IN /\ hnr_config.auto_cleanup_days > 0
     /\ \/ t.hr_met_time = NoTime
        \/ now - t.hr_met_time > window
        \/ /\ t.deleted
           /\ ~(h \in DOMAIN client /\ client[h].tagged)
           /\ t.deleted_time = NoTime \/ now - t.deleted_time > window

\* C2: a task that is COMPLIANT keeps that status through every check cycle;
\* a cycle can only remove the record, and only under the Cleaner's rules.
C2_TerminalMonotonic ==
  [][CheckStep =>
       \A h \in DOMAIN torrents :
          torrents[h].hr_status = COMPLIANT =>
            IF h \in DOMAIN torrents'
            THEN torrents'[h].hr_status = COMPLIANT
            ELSE CleanerMayRemoveCompliant(h)]_vars

\* a cycle that ran after the day of compliance has left a task COMPLIANT
\* although its figures no longer meet the condition and its torrent is untagged
C2_Witness ==
  /\ last = "check"
  /\ \E h \in DOMAIN torrents :
        LET t == torrents[h] IN
        /\ t.hr_status = COMPLIANT
        /\ t.hr_met_time < now
        /\ t.seeding_time = (t.hr_duration + AdditionalSeedTime(t.site)) * 3600
        /\ t.ratio = t.hr_ratio
        /\ h \in DOMAIN client
        /\ ~client[h].tagged

\* C3: for a task evaluated as IN_PROGRESS the order is compliance, then
\* deadline, then deletion: COMPLIANT if the condition is met (whatever the
\* deadline and the deleted flag), else OVERDUE if now > deadline_time
\* (whatever the deleted flag), else NEEDS_SEEDING if deleted, else IN_PROGRESS.
C3_EvaluationPriority ==
  [][CheckStep =>
       \A h \in Hashes :
          EvaluatedInProgress(h) =>
            /\ h \in DOMAIN torrents'
            /\ LET t == torrents'[h]
                   overdue == now > t.time + t.hr_deadline_days * 86400
               IN t.hr_status =
                    IF MeetsCondition(h, t) THEN COMPLIANT
                    ELSE IF overdue THEN OVERDUE
                    ELSE IF t.deleted THEN NEEDS_SEEDING
                    ELSE IN_PROGRESS]_vars

\* a cycle made a task COMPLIANT although its deadline had passed
C3_Witness ==
  /\ last = "check"
  /\ \E h \in DOMAIN torrents :
        /\ torrents[h].hr_status = COMPLIANT
        /\ torrents[h].hr_met_time = now
        /\ now > torrents[h].time + torrents[h].hr_deadline_days * 86400

\* C4: at most one thread is inside the "with lock" section of check() or of
\* __process_event at any time, whichever two handlers they run.
C4_MutualExclusion ==
  \A p, q \in Procs : (pc[p] # "idle" /\ pc[q] # "idle") => p = q

\* a check cycle is inside its section, holding the lock, next to an idle thread
C4_Witness ==
  \E p, q \in Procs :
     /\ p # q
     /\ pc[p] = "check"
     /\ lock = p
     /\ pc[q] = "idle"
     /\ DOMAIN torrents # {}

\* C5: a check cycle inside its section works on the documents as they are
\* persisted now: nothing was written since it read them, so its final
\* whole-document write cannot overwrite a task an ingestion stored meanwhile,
\* and the run is equivalent to the handlers executed one after the other.
C5_NoLostUpdate ==
  \A p \in Procs :
     pc[p] = "check" =>
       /\ local[p].torrent_tasks = torrents
       /\ local[p].histories = downloads

\* a cycle holds a document with a task that an ingestion stored before it
C5_Witness ==
  \E p \in Procs :
     /\ pc[p] = "check"
     /\ \E h \in DOMAIN local[p].torrent_tasks :
           local[p].torrent_tasks[h].hr_status = IN_PROGRESS
     /\ DOMAIN downloads # {}

\* the entry of h after a cycle that only refreshed its figures
Refreshed(h) ==
  [torrents[h] EXCEPT !.ratio = client[h].ratio,
                      !.seeding_time = client[h].seeding_time]

\* C6: after a check cycle, an entry whose torrent is in the snapshot without
\* the management tag is gone from the TaskStore, unless it is COMPLIANT, and
\* then it is kept as it was (up to the refresh of its figures and the Cleaner).
C6_UntaggedRemoved ==
  [][CheckStep =>
       \A h \in (DOMAIN torrents) \cap (DOMAIN client) :
          ~client[h].tagged =>
            IF torrents[h].hr_status = COMPLIANT
            THEN IF h \in DOMAIN torrents'
                 THEN torrents'[h] = Refreshed(h)
                 ELSE CleanerMayRemoveCompliant(h)
            ELSE h \notin DOMAIN torrents']_vars

\* C6 in the cycles whose tag sync returns
C6_WhenSyncReturns ==
  [][CheckStep /\ ~SyncAborts =>
       \A h \in (DOMAIN torrents) \cap (DOMAIN client) :
          ~client[h].tagged =>
            IF torrents[h].hr_status = COMPLIANT
            THEN IF h \in DOMAIN torrents'
                 THEN torrents'[h] = Refreshed(h)
                 ELSE CleanerMayRemoveCompliant(h)
            ELSE h \notin DOMAIN torrents']_vars

\* the entry the tag sync builds for an untracked tagged torrent h
AdoptedFrom(h, site, time) ==
  LET c == get_site_config(hnr_config, site) IN
  /\ h \in DOMAIN torrents'
  /\ torrents'[h].site = site
  /\ torrents'[h].time = time
  /\ torrents'[h].hit_and_run
  /\ torrents'[h].hr_ratio = c.hr_ratio
  /\ torrents'[h].hr_duration = c.hr_duration
  /\ torrents'[h].hr_deadline_days = c.hr_deadline_days
  /\ ~torrents'[h].deleted
  /\ torrents'[h].hr_status =
       IF MeetsCondition(h, torrents'[h]) THEN COMPLIANT
       ELSE IF now > time + c.hr_deadline_days * 86400 THEN OVERDUE
       ELSE IN_PROGRESS

\* C7: after a check cycle, a torrent of the snapshot that carries the tag and
\* had no entry has one, built from its history record if there is one and
\* else from the torrent's own metadata and the site lookup, an obligation
\* that started IN_PROGRESS (and was then evaluated by the same cycle).
C7_TaggedAdopted ==
  [][CheckStep =>
       \A h \in DOMAIN client :
          (client[h].tagged /\ h \notin DOMAIN torrents) =>
            IF h \in DOMAIN downloads
            THEN AdoptedFrom(h, downloads[h].site, downloads[h].time)
            ELSE AdoptedFrom(h, LookupSite(h), client[h].add_on)]_vars

\* C7 in the cycles whose tag sync returns
C7_WhenSyncReturns ==
  [][CheckStep /\ ~SyncAborts =>
       \A h \in DOMAIN client :
          (client[h].tagged /\ h \notin DOMAIN torrents) =>
            IF h \in DOMAIN downloads
            THEN AdoptedFrom(h, downloads[h].site, downloads[h].time)
            ELSE AdoptedFrom(h, LookupSite(h), client[h].add_on)]_vars

\* C8: a deleted task whose hash is in the snapshot with the tag ends the check
\* cycle as an entry of the TaskStore with deleted = false (the TaskStore is a
\* map keyed by the hash: it has at most one entry per hash by construction).
C8_Revival ==
  [][CheckStep =>
       \A h \in (DOMAIN torrents) \cap (DOMAIN client) :
          (torrents[h].deleted /\ client[h].tagged) =>
            /\ h \in DOMAIN torrents'
            /\ ~torrents'[h].deleted]_vars

\* C8 in the cycles whose tag sync returns, the Cleaner's removals set aside
C8_WhenSyncReturns ==
  [][CheckStep /\ ~SyncAborts =>
       \A h \in (DOMAIN torrents) \cap (DOMAIN client) :
          (torrents[h].deleted /\ client[h].tagged) =>
            IF h \in DOMAIN torrents'
            THEN ~torrents'[h].deleted
            ELSE torrents[h].hr_status = COMPLIANT /\ CleanerMayRemoveCompliant(h)]_vars

\* what a tag sync on the current snapshot leaves of a task map
SyncResult(tasks) ==
  IF sync_raises(tasks, downloads, client) THEN tasks
  ELSE update_seeding_tasks_based_on_tags(tasks, downloads, client, hnr_config)

\* C9: a tag sync run again on the result of a tag sync, against the same
\* snapshot, leaves the task map as it is, and if the first run returned the
\* second returns with empty added, removed and reset sets.
C9_TagSyncIdempotent ==
  LET first == SyncResult(torrents) IN
  /\ SyncResult(first) = first
  /\ ~sync_raises(torrents, downloads, client) =>
       /\ ~sync_raises(first, downloads, client)
       /\ added_tasks(first, client) = {}
       /\ removed_tasks(first, client) = {}
       /\ reset_tasks(first, client) = {}

\* a snapshot on which the first run both adopts a torrent and resets a task
C9_Witness ==
  /\ ~sync_raises(torrents, downloads, client)
  /\ added_tasks(torrents, client) # {}
  /\ reset_tasks(torrents, client) # {}

\* C10: in a check cycle that reaches the missing detection (its tag sync
\* returned), every entry absent from the snapshot and not yet deleted ends
\* the cycle deleted with deleted_time = now, whatever its status (or is
\* removed by the Cleaner as a COMPLIANT task), and no entry whose torrent is
\* in the snapshot is newly marked deleted.
C10_MissingMarked ==
  [][CheckStep /\ ~SyncAborts =>
       /\ \A h \in (DOMAIN torrents) \ (DOMAIN client) :
             ~torrents[h].deleted =>
               IF h \in DOMAIN torrents'
               THEN torrents'[h].deleted /\ torrents'[h].deleted_time = now
               ELSE torrents[h].hr_status = COMPLIANT /\ CleanerMayRemoveCompliant(h)
       /\ \A h \in (DOMAIN torrents') \cap (DOMAIN client) :
             torrents'[h].deleted =>
               /\ h \in DOMAIN torrents
               /\ torrents[h].deleted
               /\ torrents'[h].deleted_time = torrents[h].deleted_time]_vars

\* a cycle has just marked an untagged-or-not, non-COMPLIANT task as deleted
C10_Witness ==
  /\ last = "check"
  /\ \E h \in (DOMAIN torrents) \ (DOMAIN client) :
        /\ torrents[h].deleted
        /\ torrents[h].deleted_time = now
        /\ now > torrents[h].time

\* A step of the Cleaner on the task map it is handed.
CleanStep == last' = "clean"

\* the retention window in days and in seconds
Window == hnr_config.auto_cleanup_days

WindowSeconds == hnr_config.auto_cleanup_days * 86400

\* rules R2 and R4: the timestamp the window would be measured from is unset
NoTimestamp(t) ==
  \/ t.hr_status = COMPLIANT /\ t.hr_met_time = NoTime
  \/ t.deleted /\ t.deleted_time = NoTime

\* rules R1 and R3: the age, measured from a timestamp that is set, is
\* strictly above the window
AgedOut(t) ==
  \/ /\ t.hr_status = COMPLIANT
     /\ t.hr_met_time # NoTime
     /\ now - t.hr_met_time > WindowSeconds
  \/ /\ t.deleted
     /\ t.deleted_time # NoTime
     /\ now - t.deleted_time > WindowSeconds

\* C11: with a window W > 0 the Cleaner removes a COMPLIANT task with
\* hr_met_time set exactly when now - hr_met_time > W * 86400, and a deleted
\* task with deleted_time set exactly when now - deleted_time > W * 86400: a
\* task whose age equals the window stays, a task one day older goes.  (A
\* task that is both COMPLIANT and deleted goes when either age is above the
\* window; tasks without the timestamp are the case of C12.)
C11_RetentionBoundary ==
  [][(CleanStep /\ Window > 0) =>
       \A h \in DOMAIN torrents :
          ~NoTimestamp(torrents[h]) =>
            ((h \notin DOMAIN torrents') <=> AgedOut(torrents[h]))]_vars

\* the Cleaner has run and kept a COMPLIANT task whose age is exactly the
\* window, and dropped another task of the map it was handed
C11_Witness ==
  /\ last = "clean"
  /\ Window > 0
  /\ \E h \in DOMAIN torrents :
        /\ torrents[h].hr_status = COMPLIANT
        /\ ~torrents[h].deleted
        /\ torrents[h].hr_met_time # NoTime
        /\ now - torrents[h].hr_met_time = WindowSeconds
  /\ \E p \in Procs : \E g \in DOMAIN local[p].torrent_tasks :
        /\ g \notin DOMAIN torrents
        /\ local[p].torrent_tasks[g].hr_status = COMPLIANT
        /\ local[p].torrent_tasks[g].hr_met_time # NoTime
        /\ ~local[p].torrent_tasks[g].deleted

\* C12: with a window > 0 the Cleaner removes every COMPLIANT task whose
\* hr_met_time is unset and every deleted task whose deleted_time is unset,
\* whatever the time and the window.
C12_ImmediateRemoval ==
  [][(CleanStep /\ Window > 0) =>
       \A h \in DOMAIN torrents :
          NoTimestamp(torrents[h]) => h \notin DOMAIN torrents']_vars

\* the Cleaner was handed, at the very time of the other timestamps, a
\* COMPLIANT task without hr_met_time and a deleted task without deleted_time
\* and has dropped both
C12_Witness ==
  /\ last = "clean"
  /\ Window > 0
  /\ \E p \in Procs : \E g, h \in DOMAIN local[p].torrent_tasks :
        LET handed == local[p].torrent_tasks IN
        /\ handed[g].hr_status = COMPLIANT
        /\ handed[g].hr_met_time = NoTime
        /\ ~handed[g].deleted
        /\ handed[h].hr_status # COMPLIANT
        /\ handed[h].deleted
        /\ handed[h].deleted_time = NoTime
        /\ g \notin DOMAIN torrents
        /\ h \notin DOMAIN torrents

\* C13: with a window <= 0 the Cleaner leaves the task map exactly as it was
\* handed, whatever the tasks' status, deleted flag and timestamps.
C13_CleanerDisabled ==
  [][(CleanStep /\ Window <= 0) => torrents' = torrents]_vars

\* the Cleaner has run with a window <= 0 and the map still holds a COMPLIANT
\* task without hr_met_time and a task deleted days ago
C13_Witness ==
  /\ last = "clean"
  /\ Window <= 0
  /\ \E g, h \in DOMAIN torrents :
        /\ torrents[g].hr_status = COMPLIANT
        /\ torrents[g].hr_met_time = NoTime
        /\ torrents[h].deleted
        /\ torrents[h].deleted_time # NoTime
        /\ now - torrents[h].deleted_time > 86400

\* The Cleaner of this check cycle removes the entry of h: the window is
\* positive and a rule R1-R4 holds of the task as the cycle evaluated it.
CleanerRemoves(h) ==
  /\ ~SyncAborts
  /\ Window > 0
  /\ LET evaluated == evaluated_tasks(SyncResult(torrents), client, hnr_config, now)
     IN /\ h \in DOMAIN evaluated
        /\ NoTimestamp(evaluated[h]) \/ AgedOut(evaluated[h])

\* The tag sync of this check cycle removes the entry of h: its torrent is in
\* the snapshot without the tag and the entry is not COMPLIANT.
TagSyncRemoves(h) ==
  /\ ~SyncAborts
  /\ h \in DOMAIN client
  /\ ~client[h].tagged
  /\ torrents[h].hr_status # COMPLIANT

\* C14 as stated: an entry leaves the TaskStore only in a check cycle and only
\* by a Cleaner removal under R1-R4; no other operation removes an entry.
C14_OnlyCleanerRemoves ==
  [][\A h \in DOMAIN torrents :
        h \notin DOMAIN torrents' => (CheckStep /\ CleanerRemoves(h))]_vars

\* C14, amended: an entry leaves the TaskStore only in a check cycle, by a
\* Cleaner removal under R1-R4 or by the tag sync (a non-COMPLIANT entry whose
\* torrent is in the snapshot without the tag); missing detection, status
\* evaluation and ingestion never remove an entry.
C14_OnlyCleanerOrTagSyncRemoves ==
  [][\A h \in DOMAIN torrents :
        h \notin DOMAIN torrents' =>
          (CheckStep /\ (CleanerRemoves(h) \/ TagSyncRemoves(h)))]_vars

\* a cycle has run in the very second an obligation of the forced site was
\* ingested, and the entry is gone: its torrent has no tag
C14_Witness ==
  /\ last = "check"
  /\ \E h \in (DOMAIN client) \cap (DOMAIN downloads) :
        /\ get_site_config(hnr_config, EventSite(h)).hr_active
        /\ downloads[h].time = now
        /\ ~client[h].tagged
        /\ h \notin DOMAIN torrents

\* the three requirement fields of a task, and those of the effective
\* configuration of a site now
Requirements(t) == <<t.hr_ratio, t.hr_duration, t.hr_deadline_days>>

EffectiveRequirements(site) ==
  LET c == get_site_config(hnr_config, site)
  IN <<c.hr_ratio, c.hr_duration, c.hr_deadline_days>>

\* this step creates the entry of h: it was not there, or an ingestion of
\* the same hash has put a new task in its place
Created(h) ==
  \/ h \notin DOMAIN torrents
  \/ last' = "ingest" /\ torrents'[h] # torrents[h]

\* C15: a task initialised now is UNRESTRICTED if no obligation applies
\* (neither its own flag nor the forced flag of its site), else IN_PROGRESS
\* with required ratio, duration and deadline days equal to the effective
\* configuration of its site; an entry created by a step carries the
\* requirements effective at that step, and every other step, a change of
\* the configuration included, leaves the three fields of an entry alone.
C15_Initialisation ==
  [][/\ hnr_config # NoConfig =>
          \A site \in {"A", "B"}, hit \in BOOLEAN :
             LET t == init_hr_status(NewTask(site, now, hit), hnr_config)
             IN IF hit \/ get_site_config(hnr_config, site).hr_active
                THEN /\ t.hr_status = IN_PROGRESS
                     /\ Requirements(t) = EffectiveRequirements(site)
                ELSE t.hr_status = UNRESTRICTED
     /\ \A h \in DOMAIN torrents' :
          IF Created(h)
          THEN /\ torrents'[h].hit_and_run
               /\ torrents'[h].hr_status # UNRESTRICTED
               /\ Requirements(torrents'[h]) = EffectiveRequirements(torrents'[h].site)
          ELSE Requirements(torrents'[h]) = Requirements(torrents[h])]_vars

\* a cycle has run under a configuration that was changed after a task was
\* created: the task still carries the duration and the deadline days of
\* the old configuration
C15_Witness ==
  /\ last = "check"
  /\ hnr_config # NoConfig
  /\ \E h \in DOMAIN torrents :
        /\ torrents[h].hr_duration # EffectiveRequirements(torrents[h].site)[2]
        /\ torrents[h].hr_deadline_days # EffectiveRequirements(torrents[h].site)[3]

\* C16: the deadline of an obligation is its creation time plus its deadline
\* days times 86400 seconds, exactly, and it is the same after every step
\* that keeps the task: cycles, revivals and changes of the configuration.
C16_DeadlineFixed ==
  [][/\ \A h \in DOMAIN torrents :
          torrents[h].hit_and_run =>
            deadline_time(torrents[h]) =
              torrents[h].time + torrents[h].hr_deadline_days * 86400
     /\ \A h \in (DOMAIN torrents) \cap (DOMAIN torrents') :
          ~Created(h) =>
            /\ torrents'[h].time = torrents[h].time
            /\ deadline_time(torrents'[h]) = deadline_time(torrents[h])
     /\ CheckStep =>
          \A h \in (DOMAIN torrents) \cap (DOMAIN torrents') :
             (torrents[h].hr_status = IN_PROGRESS /\ torrents'[h].hr_status = OVERDUE)
               => now > torrents[h].time + torrents[h].hr_deadline_days * 86400]_vars

\* a task went OVERDUE at its own deadline although the configuration now in
\* place gives its site another number of deadline days
C16_Witness ==
  /\ last \in {"check", "check_raised"}
  /\ hnr_config # NoConfig
  /\ \E h \in DOMAIN torrents :
        /\ torrents[h].hr_status = OVERDUE
        /\ torrents[h].hr_deadline_days # EffectiveRequirements(torrents[h].site)[3]
        /\ now > torrents[h].time + torrents[h].hr_deadline_days * 86400

\* C17: in a check cycle in which the evaluation of some task raises, every
\* task is still evaluated (the status of each task evaluated as IN_PROGRESS
\* is the one the evaluation order gives), the Cleaner has run (no entry is
\* left that one of its rules removes), the statistics are those of the new
\* TaskStore, and that TaskStore is persisted.
C17_FailureIsolation ==
  [][last' = "check_raised" =>
       /\ \A h \in Hashes :
             EvaluatedInProgress(h) =>
               /\ h \in DOMAIN torrents'
               /\ LET t == torrents'[h] IN
                  \/ t.hr_status = COMPLIANT /\ MeetsCondition(h, t)
                  \/ /\ ~MeetsCondition(h, t)
                     /\ t.hr_status =
                          IF now > t.time + t.hr_deadline_days * 86400 THEN OVERDUE
                          ELSE IF t.deleted THEN NEEDS_SEEDING ELSE IN_PROGRESS
       /\ Window > 0 =>
             \A h \in DOMAIN torrents' :
                ~NoTimestamp(torrents'[h]) /\ ~AgedOut(torrents'[h])
       /\ statistic' = statistic_info(torrents')]_vars

\* a cycle in which an evaluation raised has turned one task into OVERDUE or
\* NEEDS_SEEDING and made another task COMPLIANT
C17_Witness ==
  /\ last = "check_raised"
  /\ \E g, h \in DOMAIN torrents :
        /\ torrents[g].hr_status \in {OVERDUE, NEEDS_SEEDING}
        /\ torrents[h].hr_status = COMPLIANT
        /\ torrents[h].hr_met_time = now
  /\ statistic.compliant > 0

\* a step of an event handler, accepted or rejected (every step of Ingest is one)
IngestStep == last' \in {"ingest", "reject"}

\* an obligation applies to the event: its site is managed, and the event
\* is flagged or the site forces the obligation
Obligation(e) ==
  /\ e.site \in hnr_config.sites
  /\ e.hnr \/ get_site_config(hnr_config, e.site).hr_active

\* C18: whatever the outcome of the tag calls, an ingested obligation whose
\* torrent is in the client is stored as an IN_PROGRESS task created now, and
\* a task that a cycle evaluates as IN_PROGRESS and that meets the compliance
\* condition ends the cycle COMPLIANT with hr_met_time = now.
C18_TagBestEffort ==
  [][/\ IngestStep =>
          \A e \in GoodEvents :
             (e.hash \in DOMAIN client /\ Obligation(e) /\ IngestBody(e.hash, e.hnr)) =>
               /\ e.hash \in DOMAIN torrents'
               /\ torrents'[e.hash].hr_status = IN_PROGRESS
               /\ torrents'[e.hash].time = now
     /\ CheckStep =>
          \A h \in Hashes :
             EvaluatedInProgress(h) =>
               /\ h \in DOMAIN torrents'
               /\ MeetsCondition(h, torrents'[h]) =>
                     /\ torrents'[h].hr_status = COMPLIANT
                     /\ torrents'[h].hr_met_time = now]_vars

\* a cycle has just made a task COMPLIANT and the tag is still on its
\* torrent: the call that removes it failed
C18_Witness ==
  /\ last = "check"
  /\ \E h \in (DOMAIN torrents) \cap (DOMAIN client) :
        /\ torrents[h].hr_status = COMPLIANT
        /\ torrents[h].hr_met_time = now
        /\ client[h].tagged

\* C19: init_plugin with an enabled configuration that fails the validation
\* sends exactly one alert and leaves the runtime configuration that was in
\* place before as it was.
C19_LastKnownGoodKept ==
  [][InitPlugin(BadConfig) =>
       /\ alerts' = alerts + 1
       /\ hnr_config' = hnr_config]_vars

\* C19, what the code does: one alert, and no runtime configuration at all
C19_AlertedAndCleared ==
  [][InitPlugin(BadConfig) =>
       /\ alerts' = alerts + 1
       /\ hnr_config' = NoConfig]_vars

\* C20: an event of another client, or without the client's name, the hash
\* or the descriptor, changes neither the TaskStore nor the TorrentHistory
\* nor the client (nor anything else the plugin keeps).
C20_IngestionRejection ==
  [][IngestStep =>
       \A p \in Procs, e \in BadEvents :
          Ingest(p, e) => UNCHANGED <<torrents, downloads, client, statistic>>]_vars

\* an event was rejected while its torrent is in the client and its site is
\* managed and forces the obligation: nothing was recorded for it
C20_Witness ==
  /\ last = "reject"
  /\ \E e \in BadEvents :
        /\ e.hash \in DOMAIN client
        /\ Obligation(e)
        /\ e.hash \notin DOMAIN torrents
        /\ e.hash \notin DOMAIN downloads
        /\ ~client[e.hash].tagged

\* the events the handlers accept: well formed and of the monitored client
AcceptedEvents == GoodEvents \cup UnmanagedEvents

\* the TorrentHistory record of the event is persisted by this step
HistoryPersisted(e) ==
  /\ e.hash \in DOMAIN downloads'
  /\ downloads'[e.hash] = NewHistory(e.site, now)

\* the step stores a task for the event and changes the client at most by
\* adding the tag to its torrent; or it leaves the TaskStore and the client
StoredAndTagged(e) ==
  /\ e.hash \in DOMAIN torrents'
  /\ torrents'[e.hash].site = e.site
  /\ torrents'[e.hash].time = now
  /\ \A h \in DOMAIN torrents : h # e.hash => h \in DOMAIN torrents' /\ torrents'[h] = torrents[h]
  /\ client' = client \/ client' = [client EXCEPT ![e.hash].tagged = TRUE]

\* C21 as stated: every accepted ingestion event has its TorrentHistory
\* record persisted, obligation or not; the TaskStore and the client tags
\* change only for an obligation of an enabled site.
C21_HistoryAlways ==
  [][IngestStep =>
       \A e \in AcceptedEvents :
          (event_accepted(e, hnr_config) /\ process_event(e.hash, e.site, e.hnr)) =>
            /\ HistoryPersisted(e)
            /\ IF Obligation(e) THEN StoredAndTagged(e)
               ELSE UNCHANGED <<torrents, client>>]_vars

\* C21, what the code does: the same for every accepted event whose torrent
\* the client returns; an accepted event whose torrent the client does not
\* return leaves the TorrentHistory, the TaskStore and the client unchanged.
C21_HistoryWhenInClient ==
  [][IngestStep =>
       \A e \in AcceptedEvents :
          (event_accepted(e, hnr_config) /\ process_event(e.hash, e.site, e.hnr)) =>
            IF e.hash \in DOMAIN client
            THEN /\ HistoryPersisted(e)
                 /\ IF Obligation(e) THEN StoredAndTagged(e)
                    ELSE UNCHANGED <<torrents, client>>
            ELSE UNCHANGED <<downloads, torrents, client>>]_vars

\* an event for a torrent of the public site has just been ingested: its
\* history is recorded, no task and no tag; the torrent of an obligation
\* ingested before has both
C21_Witness ==
  /\ last = "ingest"
  /\ hnr_config # NoConfig
  /\ "P" \notin hnr_config.sites
  /\ {1, 2} \subseteq DOMAIN client
  /\ 2 \in DOMAIN downloads
  /\ downloads[2] = NewHistory("P", now)
  /\ 2 \notin DOMAIN torrents
  /\ ~client[2].tagged
  /\ 1 \in DOMAIN torrents
  /\ 1 \in DOMAIN downloads
  /\ client[1].tagged

C23_StickyWarning ==
  [][CheckStep =>
       \A h \in (DOMAIN torrents) \cap (DOMAIN torrents') :
          torrents[h].hr_status \in {OVERDUE, NEEDS_SEEDING} =>
            torrents'[h].hr_status = torrents[h].hr_status]_vars

\* after a cycle a task is still NEEDS_SEEDING or OVERDUE although its
\* torrent is back in the client with the tag, the deleted flag is reset and
\* the refreshed figures meet the compliance condition
C23_Witness ==
  /\ last = "check"
  /\ \E h \in (DOMAIN torrents) \cap (DOMAIN client) :
        /\ torrents[h].hr_status \in {OVERDUE, NEEDS_SEEDING}
        /\ ~torrents[h].deleted
        /\ torrents[h].deleted_time # NoTime
        /\ client[h].tagged
        /\ torrents[h].ratio = client[h].ratio
        /\ MeetsCondition(h, torrents[h])

\* the value the precedence rule gives a field of a site: the override's if
\* the site has an override that sets the field, else the global default
HasOverride(site) == site \in DOMAIN hnr_config.site_configs

Effective(site) ==
  LET o == hnr_config.site_configs[site] IN
  [ hr_duration |->
      IF HasOverride(site) /\ o.hr_duration # NoValue
      THEN o.hr_duration ELSE hnr_config.hr_duration,
    hr_ratio |->
      IF HasOverride(site) /\ o.hr_ratio # NoValue
      THEN o.hr_ratio ELSE hnr_config.hr_ratio,
    hr_deadline_days |->
      IF HasOverride(site) /\ o.hr_deadline_days # NoValue
      THEN o.hr_deadline_days ELSE hnr_config.hr_deadline_days,
    additional_seed_time |->
      IF HasOverride(site) /\ o.additional_seed_time # NoValue
      THEN o.additional_seed_time ELSE hnr_config.additional_seed_time ]

\* the override of the site sets the required duration and nothing else
OnlyDuration(site) ==
  /\ HasOverride(site)
  /\ hnr_config.site_configs[site].hr_duration # NoValue
  /\ hnr_config.site_configs[site].hr_ratio = NoValue
  /\ hnr_config.site_configs[site].hr_deadline_days = NoValue
  /\ hnr_config.site_configs[site].additional_seed_time = NoValue

\* C24: the effective configuration of a site takes each of the required
\* duration, required ratio, deadline days and additional seed time from the
\* override if the override sets that field and from the global default
\* otherwise (an override of the duration alone leaves the other three at
\* the global defaults); an ingested obligation carries the three
\* requirements so resolved, and an evaluation adds the additional seed time
\* so resolved to the required duration.
C24_FieldByField ==
  [][/\ \A site \in {"A", "B"} :
          LET c == get_site_config(hnr_config, site) IN
          /\ c.hr_duration = Effective(site).hr_duration
          /\ c.hr_ratio = Effective(site).hr_ratio
          /\ c.hr_deadline_days = Effective(site).hr_deadline_days
          /\ c.additional_seed_time = Effective(site).additional_seed_time
          /\ OnlyDuration(site) =>
                /\ c.hr_ratio = hnr_config.hr_ratio
                /\ c.hr_deadline_days = hnr_config.hr_deadline_days
                /\ c.additional_seed_time = hnr_config.additional_seed_time
     /\ IngestStep =>
          \A e \in GoodEvents :
             (e.hash \in DOMAIN client /\ Obligation(e) /\ IngestBody(e.hash, e.hnr)) =>
               /\ e.hash \in DOMAIN torrents'
               /\ torrents'[e.hash].hr_duration = Effective(e.site).hr_duration
               /\ torrents'[e.hash].hr_ratio = Effective(e.site).hr_ratio
               /\ torrents'[e.hash].hr_deadline_days = Effective(e.site).hr_deadline_days
     /\ CheckStep =>
          \A h \in Hashes :
             EvaluatedInProgress(h) =>
               /\ h \in DOMAIN torrents'
               /\ LET t == torrents'[h] IN
                  (t.hr_status = COMPLIANT) <=>
                     \/ SeenSeedingTime(h) >
                          (t.hr_duration + Effective(t.site).additional_seed_time) * 3600
                     \/ SeenRatio(h) > t.hr_ratio]_vars

\* under an override of site A that sets the duration alone (36 hours), a
\* task of site A carries that duration with the global ratio and deadline
\* days, and a cycle has made it COMPLIANT at 61 hours of seeding: 36 hours
\* plus the global 24
C24_Witness ==
  /\ last = "check"
  /\ OnlyDuration("A")
  /\ \E h \in DOMAIN torrents :
        LET t == torrents[h] IN
        /\ t.site = "A"
        /\ t.hr_duration = 36
        /\ t.hr_ratio = hnr_config.hr_ratio
        /\ t.hr_deadline_days = hnr_config.hr_deadline_days
        /\ t.hr_status = COMPLIANT
        /\ t.seeding_time = 61 * Hour
        /\ t.ratio <= t.hr_ratio

\* C25: under the configuration of the scenario (global 120 h, 1.0, 14 days,
\* 24 h additional; site A 36 h, 1.0, forced) an ingested torrent of site A,
\* flagged or not, is stored IN_PROGRESS with created time now, a required
\* seeding time of 60 hours and the deadline now + 14 days; a cycle that
\* evaluates it with at most 60 hours seeded and a ratio of at most 1 leaves
\* it IN_PROGRESS, and a cycle that sees 61 hours makes it COMPLIANT with
\* hr_met_time = now.
C25_Scenario ==
  [][hnr_config = ScenarioConfig =>
       /\ IngestStep =>
            \A e \in GoodEvents :
               (e.site = "A" /\ e.hash \in DOMAIN client /\ IngestBody(e.hash, e.hnr)) =>
                 /\ e.hash \in DOMAIN torrents'
                 /\ LET t == torrents'[e.hash] IN
                    /\ t.hr_status = IN_PROGRESS
                    /\ t.time = now
                    /\ t.hr_ratio = 1
                    /\ t.hr_duration
                         + get_site_config(hnr_config, "A").additional_seed_time = 60
                    /\ deadline_time(t) = now + 14 * 86400
       /\ CheckStep =>
            \A h \in DOMAIN torrents :
               (EvaluatedInProgress(h) /\ torrents[h].site = "A") =>
                 /\ h \in DOMAIN torrents'
                 /\ (SeenSeedingTime(h) <= 60 * 3600 /\ SeenRatio(h) <= 1) =>
                       torrents'[h].hr_status = IN_PROGRESS
                 /\ SeenSeedingTime(h) = 61 * 3600 =>
                       /\ torrents'[h].hr_status = COMPLIANT
                       /\ torrents'[h].hr_met_time = now]_vars

\* the scenario has run: a task of site A created on an earlier day, with
\* its deadline 14 days after its creation, was made COMPLIANT by the cycle
\* that saw 61 hours of seeding at a ratio of at most 1
C25_Witness ==
  /\ hnr_config = ScenarioConfig
  /\ last = "check"
  /\ \E h \in DOMAIN torrents :
        LET t == torrents[h] IN
        /\ t.site = "A"
        /\ t.hr_duration = 36
        /\ deadline_time(t) = t.time + 14 * Day
        /\ t.time < now
        /\ t.hr_status = COMPLIANT
        /\ t.hr_met_time = now
        /\ t.seeding_time = 61 * Hour
        /\ t.ratio <= 1

\* this cycle evaluates h as IN_PROGRESS and makes it COMPLIANT
MadeCompliant(h) ==
  /\ EvaluatedInProgress(h)
  /\ h \in DOMAIN torrents'
  /\ torrents'[h].hr_status = COMPLIANT

\* C26 as stated: after the cycle that makes a task COMPLIANT its torrent
\* does not carry the management tag.
C26_TagCleared ==
  [][CheckStep =>
       \A h \in Hashes :
          (MadeCompliant(h) /\ h \in DOMAIN client') => ~client'[h].tagged]_vars

\* C26, what the code does: after the cycle that makes a task COMPLIANT its
\* torrent does not carry the tag unless the call that removes it raised, in
\* which case the tag is still there; and a cycle leaves the tag of a task
\* that was COMPLIANT before as it is (a failed removal is not tried again).
C26_TagClearedUnlessCallFails ==
  [][CheckStep =>
       /\ \A h \in Hashes :
             (MadeCompliant(h) /\ h \in DOMAIN client') =>
               (client'[h].tagged <=> h \in tagfail')
       /\ \A h \in (DOMAIN torrents) \cap (DOMAIN client) :
             torrents[h].hr_status = COMPLIANT =>
               client'[h].tagged = client[h].tagged]_vars

\* a cycle has just made a task COMPLIANT and no tag call failed: the tag
\* its torrent carried when the cycle began is gone
C26_Witness ==
  /\ last = "check"
  /\ tagfail = {}
  /\ \E h \in (DOMAIN torrents) \cap (DOMAIN client) :
        /\ torrents[h].hr_status = COMPLIANT
        /\ torrents[h].hr_met_time = now
        /\ ~torrents[h].deleted
        /\ ~client[h].tagged

\* the counts taken from scratch over the TaskStore as the step leaves it
\* (the archive set is empty): obligation tasks in all and by status, and
\* tasks with the deleted flag
Recounted ==
  LET obligation == {h \in DOMAIN torrents' : torrents'[h].hit_and_run}
      with(st) == Cardinality({h \in obligation : torrents'[h].hr_status = st})
  IN [ total_count |-> Cardinality(obligation),
       pending |-> with(PENDING),
       in_progress |-> with(IN_PROGRESS),
       compliant |-> with(COMPLIANT),
       deleted |-> Cardinality({h \in DOMAIN torrents' : torrents'[h].deleted}),
       other |-> Cardinality(obligation)
                   - with(PENDING) - with(IN_PROGRESS) - with(COMPLIANT) ]

\* C27 as stated: after every check cycle the persisted statistics are the
\* counts taken from scratch over the TaskStore the cycle leaves, also when
\* that TaskStore is empty.
C27_StatisticsCurrent ==
  [][CheckStep => statistic' = Recounted]_vars

\* C27, what the code does: a cycle whose tag sync returns and leaves some
\* task writes the recounted statistics; a cycle whose tag sync raises or
\* leaves no task returns with the statistics as they were.
C27_StatisticsWhenTasksRemain ==
  [][CheckStep =>
       IF SyncAborts \/ DOMAIN SyncResult(torrents) = {}
       THEN statistic' = statistic
       ELSE statistic' = Recounted]_vars

\* C28: a task has hr_met_time set exactly if it is COMPLIANT; a step sets
\* the hr_met_time of a task it keeps only by a check cycle that turns the
\* task from IN_PROGRESS to COMPLIANT, to the current time, and once set no
\* step changes it.
C28_MetTimeOnce ==
  [][/\ \A h \in DOMAIN torrents' :
          (torrents'[h].hr_status = COMPLIANT) <=> (torrents'[h].hr_met_time # NoTime)
     /\ \A h \in (DOMAIN torrents) \cap (DOMAIN torrents') :
          ~Created(h) =>
            IF torrents[h].hr_met_time # NoTime
            THEN torrents'[h].hr_met_time = torrents[h].hr_met_time
            ELSE torrents'[h].hr_met_time # NoTime =>
                   /\ CheckStep
                   /\ torrents[h].hr_status = IN_PROGRESS
                   /\ torrents'[h].hr_status = COMPLIANT
                   /\ torrents'[h].hr_met_time = now]_vars

\* a cycle on a later day has kept a COMPLIANT task whose figures still meet
\* the condition: its hr_met_time is the earlier day's
C28_Witness ==
  /\ last = "check"
  /\ \E h \in (DOMAIN torrents) \cap (DOMAIN client) :
        /\ torrents[h].hr_status = COMPLIANT
        /\ torrents[h].hr_met_time # NoTime
        /\ torrents[h].hr_met_time < now
        /\ torrents[h].ratio = client[h].ratio
        /\ torrents[h].seeding_time = client[h].seeding_time
        /\ MeetsCondition(h, torrents[h])

\* the notification mode lets a message of the given severity through
Delivered(warning) ==
  \/ hnr_config.notify = "always"
  \/ hnr_config.notify = "on_error" /\ warning

\* the triggers of a check cycle: the tasks the missing detection marks
\* (stored, not flagged deleted, torrent gone from the client) ...
DeletionTriggers ==
  {h \in DOMAIN torrents :
     ~SyncAborts /\ h \notin DOMAIN client /\ ~torrents[h].deleted}

\* ... and the tasks the evaluation moves from IN_PROGRESS to a new status
StatusTriggers(status) ==
  {h \in Hashes :
     /\ EvaluatedInProgress(h)
     /\ h \in DOMAIN torrents'
     /\ torrents'[h].hr_status = status}

\* the messages a check cycle hands over if each trigger is filtered by the
\* mode: compliance is informational, overdue and needs-seeding are
\* warnings, a deletion is a warning unless the task is COMPLIANT or
\* UNRESTRICTED
CycleMessages ==
  {<<h, "deleted">> : h \in
     {g \in DeletionTriggers :
        Delivered(torrents[g].hr_status \notin {COMPLIANT, UNRESTRICTED})}}
  \cup {<<h, "compliant">> : h \in {g \in StatusTriggers(COMPLIANT) : Delivered(FALSE)}}
  \cup {<<h, "overdue">> : h \in {g \in StatusTriggers(OVERDUE) : Delivered(TRUE)}}
  \cup {<<h, "needs_seeding">> : h \in
          {g \in StatusTriggers(NEEDS_SEEDING) : Delivered(TRUE)}}

\* the messages of an ingestion, the new obligation having the severity given
IngestMessages(e, warning) ==
  IF e.hash \in DOMAIN client /\ Obligation(e) /\ Delivered(warning)
  THEN {<<e.hash, "download">>}
  ELSE {}

\* C29 as stated: the messages handed to the notification sink by a step are
\* the triggers of the step that the mode lets through: none in mode silent,
\* all in mode all, the warnings in mode warnings-only, a new obligation
\* being a warning.
C29_FilterNewObligationWarns ==
  [][/\ CheckStep => sent' = CycleMessages
     /\ IngestStep =>
          \A e \in GoodEvents :
             IngestBody(e.hash, e.hnr) => sent' = IngestMessages(e, TRUE)]_vars

\* C29, what the code does: the same with the new obligation informational,
\* so that it is delivered in mode all only.
C29_FilterNewObligationInforms ==
  [][/\ CheckStep => sent' = CycleMessages
     /\ IngestStep =>
          \A e \in GoodEvents :
             IngestBody(e.hash, e.hnr) => sent' = IngestMessages(e, FALSE)]_vars

\* in mode warnings-only a cycle has found two torrents gone: the deletion
\* of the COMPLIANT task was not delivered, the deletion of the unmet task
\* and its needs-seeding warning were
C29_Witness ==
  /\ hnr_config.notify = "on_error"
  /\ last \in {"check", "check_raised"}
  /\ \E g, h \in DOMAIN torrents :
        /\ torrents[g].hr_status = COMPLIANT
        /\ torrents[g].deleted
        /\ torrents[g].deleted_time = now
        /\ <<g, "deleted">> \notin sent
        /\ torrents[h].hr_status = NEEDS_SEEDING
        /\ <<h, "deleted">> \in sent
        /\ <<h, "needs_seeding">> \in sent

\* the sites the registry lists as not public
PrivateSites ==
  {site \in DOMAIN site_id_to_public_status : ~site_id_to_public_status[site]}

\* C30: the enabled-site set of the runtime configuration holds only sites
\* of the registry that are not public, whatever the form selected; and an
\* accepted ingestion event for a torrent of a public or unknown site
\* changes neither the TaskStore nor the client.
C30_OnlyPrivateSites ==
  [][/\ hnr_config # NoConfig => hnr_config.sites \subseteq PrivateSites
     /\ hnr_config' # NoConfig => hnr_config'.sites \subseteq PrivateSites
     /\ IngestStep =>
          \A e \in AcceptedEvents :
             ( /\ e.site \notin PrivateSites
               /\ event_accepted(e, hnr_config)
               /\ process_event(e.hash, e.site, e.hnr) ) =>
               UNCHANGED <<torrents, client>>]_vars

\* init_plugin has accepted a form on which the public and the unknown site
\* were selected, and an event for a torrent of the public site was then
\* ingested: no task, no tag
C30_Witness ==
  /\ last = "ingest"
  /\ hnr_config = AltConfig
  /\ 2 \in DOMAIN client
  /\ ~client[2].tagged
  /\ 2 \notin DOMAIN torrents
  /\ 2 \in DOMAIN downloads
  /\ downloads[2].site = "P"
  /\ downloads[2].time = now

\* the age of a history record is over the retention window of 30 days
Expired(record) == now - record.time > 30 * 86400

\* this step is an ingestion that reaches __save_and_cleanup_downloads for
\* event e: the event is accepted and the client returns its torrent
IngestSaves(e) ==
  /\ event_accepted(e, hnr_config)
  /\ e.hash \in DOMAIN client
  /\ process_event(e.hash, e.site, e.hnr)

\* C31 as stated: once a handler (an ingestion or a check cycle) has run at
\* a time more than 30 days after the time of a history record, the record
\* is no longer in the history store, whatever the state of its obligation.
C31_PurgedByEveryRun ==
  last \in {"ingest", "check", "check_raised"} =>
    \A h \in DOMAIN downloads : ~Expired(downloads[h])

\* C31, what the code does: the purge is part of the ingestion that saves a
\* record.  Such an ingestion leaves the new record and, of the others,
\* exactly those strictly younger than 30 days, whatever the TaskStore holds
\* for their hashes; an ingestion whose torrent the client does not return
\* and a check cycle leave the history store as it is, and the tag sync of
\* a cycle rebuilds a task from whatever record the store still holds.
C31_PurgedAtIngestion ==
  [][/\ IngestStep =>
          \A e \in GoodEvents :
             (event_accepted(e, hnr_config) /\ process_event(e.hash, e.site, e.hnr)) =>
               IF e.hash \in DOMAIN client
               THEN /\ HistoryPersisted(e)
                    /\ \A h \in (DOMAIN downloads) \ {e.hash} :
                          IF now - downloads[h].time < 30 * 86400
                          THEN h \in DOMAIN downloads' /\ downloads'[h] = downloads[h]
                          ELSE h \notin DOMAIN downloads'
                    /\ DOMAIN downloads' \subseteq (DOMAIN downloads) \cup {e.hash}
               ELSE downloads' = downloads
     /\ CheckStep =>
          /\ downloads' = downloads
          /\ ~SyncAborts =>
                \A h \in DOMAIN client :
                   (client[h].tagged /\ h \notin DOMAIN torrents /\ h \in DOMAIN downloads) =>
                     AdoptedFrom(h, downloads[h].site, downloads[h].time)]_vars

\* an ingestion of hash 1, more than 30 days after hash 2 was ingested, has
\* purged the record of hash 2 although the task of hash 2 is still in the
\* TaskStore (a task of hash 2 is only ever built with a history record)
C31_Witness ==
  /\ last = "ingest"
  /\ 1 \in DOMAIN downloads
  /\ downloads[1].time = now
  /\ 2 \in DOMAIN torrents
  /\ now - torrents[2].time > 30 * 86400
  /\ 2 \notin DOMAIN downloads

\* this check cycle goes past the early return: its tag sync returns and
\* leaves at least one task
ReachesEvaluation ==
  /\ ~SyncAborts
  /\ DOMAIN SyncResult(torrents) # {}

\* C32: a check cycle runs tag sync, missing detection, refresh of the
\* figures, status evaluation, Cleaner, statistics and persist in this
\* order.  A task evaluated as IN_PROGRESS (an entry the tag sync adopted in
\* this cycle included) is judged on the figures the client reports in this
\* cycle and on the deleted flag this cycle's missing detection set; the
\* persisted TaskStore holds no task a Cleaner rule removes, and the
\* statistics are the counts over that persisted TaskStore.
C32_StepOrder ==
  [][(CheckStep /\ ReachesEvaluation) =>
       /\ \A h \in Hashes :
             EvaluatedInProgress(h) =>
               /\ h \in DOMAIN torrents'
               /\ LET t == torrents'[h]
                      missing == h \notin DOMAIN client
                  IN /\ ~missing => (t.ratio = client[h].ratio
                                       /\ t.seeding_time = client[h].seeding_time)
                     /\ missing => (t.deleted /\ t.deleted_time = now)
                     /\ t.hr_status =
                          IF MeetsCondition(h, t) THEN COMPLIANT
                          ELSE IF now > t.time + t.hr_deadline_days * 86400 THEN OVERDUE
                          ELSE IF missing THEN NEEDS_SEEDING
                          ELSE IN_PROGRESS
       /\ Window > 0 =>
             \A h \in DOMAIN torrents' :
                ~NoTimestamp(torrents'[h]) /\ ~AgedOut(torrents'[h])
       /\ statistic' = statistic_info(torrents')]_vars

\* one cycle has found a torrent gone and turned its task into NEEDS_SEEDING
\* at once, has made another task COMPLIANT on the figures the client
\* reports now, and has dropped nothing of the two; the statistics count both
C32_Witness ==
  /\ last = "check"
  /\ \E g, h \in DOMAIN torrents :
        /\ torrents[h].hr_status = NEEDS_SEEDING
        /\ torrents[h].deleted
        /\ torrents[h].deleted_time = now
        /\ h \notin DOMAIN client
        /\ torrents[g].hr_status = COMPLIANT
        /\ torrents[g].hr_met_time = now
        /\ g \in DOMAIN client
        /\ torrents[g].seeding_time = client[g].seeding_time
        /\ torrents[g].seeding_time >
              (torrents[g].hr_duration + AdditionalSeedTime(torrents[g].site)) * 3600
  /\ statistic.total_count = 2
  /\ statistic.compliant = 1
  /\ statistic.deleted = 1

\* C33: every entry of the TaskStore, whether an ingestion or the tag sync
\* created it, is an obligation (hit_and_run is true) whose status is
\* IN_PROGRESS, COMPLIANT, OVERDUE or NEEDS_SEEDING: a PENDING or an
\* UNRESTRICTED task is never stored.
C33_OnlyObligationsStored ==
  \A h \in DOMAIN torrents :
     /\ torrents[h].hit_and_run
     /\ torrents[h].hr_status \in {IN_PROGRESS, COMPLIANT, OVERDUE, NEEDS_SEEDING}

\* an event without the flag, for a site that does not force the
\* obligation, has just been ingested: its history is recorded and no task
\* is stored for it; the TaskStore holds the task of another hash, which a
\* cycle has taken out of IN_PROGRESS
C33_Witness ==
  /\ last = "ingest"
  /\ hnr_config # NoConfig
  /\ \E g \in DOMAIN torrents, h \in (DOMAIN downloads) \cap (DOMAIN client) :
        /\ downloads[h] = NewHistory(EventSite(h), now)
        /\ ~get_site_config(hnr_config, EventSite(h)).hr_active
        /\ h \notin DOMAIN torrents
        /\ torrents[g].hr_status \in {COMPLIANT, OVERDUE, NEEDS_SEEDING}

\* C34: a check cycle in which no evaluation raised ends with no entry that
\* is both deleted and IN_PROGRESS; an entry the cycle marks deleted ends it
\* COMPLIANT, OVERDUE or NEEDS_SEEDING (or is gone), and an entry the tag
\* sync revives is not IN_PROGRESS and keeps the status it had.
C34_DeletedNeverInProgress ==
  [][last' = "check" =>
       /\ \A h \in DOMAIN torrents' :
             ~(torrents'[h].deleted /\ torrents'[h].hr_status = IN_PROGRESS)
       /\ ~SyncAborts =>
             /\ \A h \in (DOMAIN torrents) \ (DOMAIN client) :
                   (~torrents[h].deleted /\ h \in DOMAIN torrents') =>
                     /\ torrents'[h].deleted
                     /\ torrents'[h].hr_status \in {COMPLIANT, OVERDUE, NEEDS_SEEDING}
             /\ \A h \in (DOMAIN torrents) \cap (DOMAIN client) :
                   (torrents[h].deleted /\ client[h].tagged) =>
                     /\ torrents[h].hr_status # IN_PROGRESS
                     /\ h \in DOMAIN torrents' =>
                           torrents'[h].hr_status = torrents[h].hr_status]_vars

\* a cycle has revived a task that an earlier cycle had marked deleted: the
\* torrent is back with the tag, the flag is cleared, and the task is still
\* NEEDS_SEEDING
C34_Witness ==
  /\ last = "check"
  /\ \E h \in (DOMAIN torrents) \cap (DOMAIN client) :
        /\ client[h].tagged
        /\ ~torrents[h].deleted
        /\ torrents[h].deleted_time # NoTime
        /\ torrents[h].hr_status = NEEDS_SEEDING

\* this check cycle is the step right after an ingestion: nothing outside
\* the plugin has touched the client in between
CheckAfterIngest == last = "ingest" /\ CheckStep

\* the entry of h is one the last ingestion may have stored: created now,
\* not deleted, its torrent in the client
FreshlyStored(h) ==
  /\ h \in (DOMAIN torrents) \cap (DOMAIN client)
  /\ torrents[h].time = now
  /\ ~torrents[h].deleted

\* C35: an obligation that an ingestion stored is still in the TaskStore at
\* the end of the next check cycle if its torrent is still in the client and
\* nobody outside the plugin took the tag off: the torrent carries the tag,
\* or it does not because the add-tag call of the ingestion failed.
C35_StoredSurvivesNextCycle ==
  [][CheckAfterIngest =>
       \A h \in Hashes :
          (FreshlyStored(h) /\ (client[h].tagged \/ h \in tagfail)) =>
            h \in DOMAIN torrents']_vars

\* C35 for the ingestions whose tag call succeeded (or found the tag on the
\* torrent): the entry is in the TaskStore after the next check cycle; the
\* entry of an ingestion whose tag call failed is removed by the tag sync of
\* that cycle whenever the tag sync returns.
C35_SurvivesWhenTagged ==
  [][CheckAfterIngest =>
       \A h \in Hashes :
          FreshlyStored(h) =>
            /\ client[h].tagged => h \in DOMAIN torrents'
            /\ (h \in tagfail /\ ~SyncAborts) => h \notin DOMAIN torrents']_vars

\* a step of check(), whether it ran to its end or a late step raised
AnyCheckStep == last' \in {"check", "check_raised", "check_failed"}

\* this step takes the management tag off the torrent of h
Untagged(h) ==
  /\ h \in DOMAIN client
  /\ client[h].tagged
  /\ ~client'[h].tagged

\* C36: whenever a check cycle takes the tag off a torrent because its task
\* reached COMPLIANT, the TaskStore persisted when the cycle ends records the
\* task as COMPLIANT, also when the Cleaner, the statistics or the persist
\* of that cycle fails.
C36_UntagImpliesPersisted ==
  [][AnyCheckStep =>
       \A h \in Hashes :
          Untagged(h) =>
            /\ h \in DOMAIN torrents'
            /\ torrents'[h].hr_status = COMPLIANT]_vars

\* C36 for the cycles that run to their end: the task whose tag was taken
\* off is persisted as COMPLIANT with hr_met_time = now.  A cycle in which a
\* late step raises leaves the entry as it was persisted before, which is
\* not COMPLIANT.
C36_PersistedWhenCycleCompletes ==
  [][/\ CheckStep =>
          \A h \in Hashes :
             Untagged(h) =>
               /\ h \in DOMAIN torrents'
               /\ torrents'[h].hr_status = COMPLIANT
               /\ torrents'[h].hr_met_time = now
     /\ last' = "check_failed" =>
          \A h \in Hashes :
             (Untagged(h) /\ h \in DOMAIN torrents') =>
               torrents'[h].hr_status # COMPLIANT]_vars

\* no task can be built for the tagged, untracked torrent h: it has no
\* history record and the site lookup yields no site
Unbuildable(h) ==
  /\ h \in DOMAIN client
  /\ client[h].tagged
  /\ h \notin DOMAIN torrents
  /\ ConvertsToNone(h, downloads)

\* C37: a check cycle whose snapshot holds an unbuildable torrent skips that
\* torrent (no entry is added for it) and goes on: the other tagged untracked
\* torrents are adopted, the untagged non-COMPLIANT entries removed, the
\* missing entries marked, and when tasks remain the statistics are those of
\* the persisted TaskStore.
C37_UnbuildableSkipped ==
  [][CheckStep =>
       \A h \in Hashes :
          Unbuildable(h) =>
            /\ h \notin DOMAIN torrents'
            /\ \A g \in DOMAIN client :
                  (client[g].tagged /\ g \notin DOMAIN torrents /\ ~Unbuildable(g))
                    => g \in DOMAIN torrents'
            /\ \A g \in (DOMAIN torrents) \cap (DOMAIN client) :
                  (~client[g].tagged /\ torrents[g].hr_status # COMPLIANT)
                    => g \notin DOMAIN torrents'
            /\ \A g \in (DOMAIN torrents) \ (DOMAIN client) :
                  g \in DOMAIN torrents' => torrents'[g].deleted
            /\ DOMAIN torrents' # {} => statistic' = statistic_info(torrents')]_vars

\* C37, what the code does: the unbuildable torrent gets no entry, and the
\* cycle ends there; it changes neither the TaskStore nor the statistics nor
\* the client.
C37_UnbuildableAbortsCycle ==
  [][CheckStep =>
       \A h \in Hashes :
          Unbuildable(h) =>
            /\ h \notin DOMAIN torrents'
            /\ UNCHANGED <<torrents, statistic, client, downloads>>]_vars

\* C38: once the Cleaner has removed a COMPLIANT task, no later check cycle
\* creates an entry for its hash unless somebody outside the plugin put the
\* tag back or the hash was ingested again, also when the remove-tag call
\* made at compliance had failed.  (Stated for the runs in which only the
\* plugin sets and clears the tag: there a torrent carries the tag without
\* having an entry only after the Cleaner removed its COMPLIANT task, and
\* the statement is that a check cycle never creates an entry.)
C38_NoReadoption ==
  [][CheckStep =>
       \A h \in Hashes :
          h \notin DOMAIN torrents => h \notin DOMAIN torrents']_vars

\* C38, what the code does: a check cycle whose tag sync returns creates an
\* entry for exactly the untracked hashes whose torrent carries the tag, be
\* it the tag that a failed remove-tag call left on the torrent of a task
\* the Cleaner has removed since; the entry is rebuilt from the history
\* record with the time of the ingestion.
C38_ReadoptedWhileTagged ==
  [][(CheckStep /\ ~SyncAborts) =>
       \A h \in Hashes :
          h \notin DOMAIN torrents =>
            IF h \in DOMAIN client /\ client[h].tagged
            THEN /\ h \in DOMAIN torrents'
                 /\ h \in DOMAIN downloads =>
                       torrents'[h].time = downloads[h].time
            ELSE h \notin DOMAIN torrents']_vars

\* the entry of the event is a freshly initialised obligation
FreshEntry(e) ==
  LET t == torrents'[e.hash]
      c == get_site_config(hnr_config, e.site)
  IN /\ t.site = e.site
     /\ t.time = now
     /\ t.hit_and_run
     /\ t.hr_status = IN_PROGRESS
     /\ t.hr_met_time = NoTime
     /\ ~t.deleted
     /\ t.deleted_time = NoTime
     /\ t.ratio = 0
     /\ t.seeding_time = 0
     /\ Requirements(t) = <<c.hr_ratio, c.hr_duration, c.hr_deadline_days>>

\* C39: the ingestion of an obligation event for a hash that already has an
\* entry (its torrent being in the client) puts a freshly initialised task in
\* the place of that entry, whatever its status was, and leaves the entries
\* of the other hashes as they were; no entry is added or removed.
C39_ReingestReplaces ==
  [][IngestStep =>
       \A e \in GoodEvents :
          (/\ e.hash \in (DOMAIN torrents) \cap (DOMAIN client)
           /\ Obligation(e)
           /\ event_accepted(e, hnr_config)
           /\ process_event(e.hash, e.site, e.hnr)) =>
            /\ DOMAIN torrents' = DOMAIN torrents
            /\ FreshEntry(e)
            /\ \A h \in (DOMAIN torrents) \ {e.hash} : torrents'[h] = torrents[h]]_vars

\* both hashes have been ingested again: the statistics of the last cycle
\* still count a COMPLIANT task and one that is neither COMPLIANT nor
\* IN_PROGRESS, and the two entries of the TaskStore are IN_PROGRESS, created
\* now, with no hr_met_time and no deleted flag
C39_Witness ==
  /\ last = "ingest"
  /\ statistic.compliant = 1
  /\ statistic.other = 1
  /\ DOMAIN torrents = Hashes
  /\ \A h \in Hashes :
        /\ torrents[h].hr_status = IN_PROGRESS
        /\ torrents[h].time = now
        /\ torrents[h].hr_met_time = NoTime
        /\ ~torrents[h].deleted

\* the window is positive and the entry of h is COMPLIANT since a time, or
\* deleted since a time with its torrent gone from the client, from which
\* the window runs out before the last time of the model
DueForRemoval(h) ==
  /\ Window > 0
  /\ h \in DOMAIN torrents
  /\ \/ /\ torrents[h].hr_status = COMPLIANT
        /\ torrents[h].hr_met_time # NoTime
        /\ torrents[h].hr_met_time + WindowSeconds < LastTime
     \/ /\ torrents[h].deleted
        /\ h \notin DOMAIN client
        /\ torrents[h].deleted_time # NoTime
        /\ torrents[h].deleted_time + WindowSeconds < LastTime

\* no step removes an OVERDUE or NEEDS_SEEDING entry whose torrent is in the
\* client with the tag, nor changes its status
WarningsStay ==
  [][\A h \in (DOMAIN torrents) \cap (DOMAIN client) :
        (torrents[h].hr_status \in {OVERDUE, NEEDS_SEEDING} /\ client[h].tagged) =>
          /\ h \in DOMAIN torrents'
          /\ torrents'[h].hr_status = torrents[h].hr_status]_vars

\* C40: with a positive window, time advancing and check cycles recurring,
\* every COMPLIANT task and every deleted task whose torrent does not come
\* back is eventually removed from the TaskStore, while an OVERDUE or
\* NEEDS_SEEDING task whose torrent stays tagged in the client is never
\* removed.
C40_EventuallyRemoved ==
  /\ \A h \in Hashes : DueForRemoval(h) ~> (h \notin DOMAIN torrents)
  /\ WarningsStay

\* C40, what the code does: the same removals happen when the cycles reach
\* the Cleaner, that is unless the snapshot holds a tagged torrent for which
\* no task can be built, in which case every cycle ends in the tag sync and
\* the TaskStore stays as it is for good.
C40_RemovedUnlessCyclesAbort ==
  /\ \A h \in Hashes :
        (DueForRemoval(h) /\ ~SyncAborts) ~> (h \notin DOMAIN torrents)
  /\ [][SyncAborts => (SyncAborts' /\ torrents' = torrents)]_vars
  /\ WarningsStay

====
